---- MODULE Spec2Model ----
(***************************************************************************)
(* Model of the form-filling review pipeline: the field list kept by the   *)
(* review panel (components/ReviewPanel.tsx), the fill engine              *)
(* (services/pdfService.ts, createFilledPdf), the debounced preview        *)
(* regeneration of the review panel, the client of the template-render     *)
(* service (services/pdfService.ts, lines 116-256), the extraction call    *)
(* (services/geminiService.ts, processDocuments), the App shell (App.tsx)  *)
(* and the verification footer of the review panel.                        *)
(*                                                                         *)
(* Conventions.  JavaScript strings that the code inspects character by    *)
(* character (field values) are sequences of one-character strings.  List  *)
(* indices are 1-based here and 0-based in the source.  An optional        *)
(* property that is absent is a record with present = FALSE.               *)
(***************************************************************************)
EXTENDS Integers, Sequences, FiniteSets, TLC

VARIABLES
    fields,        \* ReviewPanel state `fields` (the canonical field list)
    filterMode,    \* ReviewPanel state `filterMode`
    pdfMode,       \* ReviewPanel state `pdfMode`
    formDoc,       \* the PDF behind formFile.base64
    formType,      \* formFile.type
    mounted,       \* the review panel is mounted
    timer,         \* the debounce timer of the preview effect is pending
    inFlight,      \* createFilledPdf calls started by updatePreview, not yet settled
    started,       \* number of updatePreview runs that called createFilledPdf
    created,       \* number of object URLs made with URL.createObjectURL
    revoked,       \* object URLs released with URL.revokeObjectURL
    previewUrl,    \* ReviewPanel state `previewUrl`, with what the URL shows
    downloaded,    \* what the step just taken handed to the user to download
    fillArgs,      \* fill engine run: the isFillable argument
    fillResult,    \* fill engine run: what createFilledPdf returned
    lastOp,        \* history: the last operation and the field it replaced
    formName,      \* formFile.file.name
    latexAvailable,  \* ReviewPanel state `latexAvailable`
    latexPdfBase64,  \* ReviewPanel state `latexPdfBase64` is not null
    isGenerating,  \* ReviewPanel state `isGenerating`
    healthCheck,   \* the isLatexServiceAvailable call of checkLatex is pending
    latexCalls,    \* generateLatexPdf calls of the panel, not yet settled
    latexStarted,  \* number of generateLatexPdf calls the panel made
    status,        \* App state `status`
    error,         \* App state `error`
    responseData,  \* App state `responseData`
    pdfFields,     \* App state `pdfFields`
    sourceFile,    \* App state `sourceFile` is not null
    analysis,      \* the processDocuments call of handleAnalyze, not yet settled
    inspections,   \* getPdfFields calls of analyzePdf, not yet settled
    apiKey,        \* localStorage item 'gemini_api_key'
    serviceCall,   \* template-render service run: the function and the HTTP outcome
    serviceResult  \* template-render service run: what the function returned

\* the template-render side of the review panel
latexVars == <<latexAvailable, latexPdfBase64, isGenerating, healthCheck,
              latexCalls, latexStarted>>
\* the state of App.tsx
appVars == <<status, error, responseData, pdfFields, sourceFile, analysis,
            inspections, apiKey>>
\* one call of a function of the template-render service
serviceVars == <<serviceCall, serviceResult>>

vars == <<fields, filterMode, pdfMode, formDoc, formType, mounted, timer,
          inFlight, started, created, revoked, previewUrl, downloaded,
          fillArgs, fillResult, lastOp, formName, latexVars, appVars,
          serviceVars>>

----------------------------------------------------------------------------
(* Bounds *)

\* longest field list of the reconciliation-store specification
MaxFields == 2
\* longest field list handed to the fill engine specification
MaxFillFields == 2
\* number of createFilledPdf calls one review panel starts
MaxFills == 2
\* number of generateLatexPdf calls one review panel makes
MaxLatexCalls == 1

----------------------------------------------------------------------------
(* Strings *)

UpperCase == <<"A","D","E","F","G","N","O","P","R","S","T","U","X","Y">>
LowerCase == <<"a","d","e","f","g","n","o","p","r","s","t","u","x","y">>

\* String.prototype.toLowerCase on one character
LowerChar(c) ==
    IF \E k \in DOMAIN UpperCase : UpperCase[k] = c
    THEN LowerCase[CHOOSE k \in DOMAIN UpperCase : UpperCase[k] = c]
    ELSE c

\* String.prototype.toLowerCase
toLowerCase(s) == [k \in DOMAIN s |-> LowerChar(s[k])]

EmptyStr == << >>
S_true   == <<"t","r","u","e">>
S_yes    == <<"y","e","s">>
S_YeS    == <<"Y","e","S">>
S_no     == <<"n","o">>
S_X      == <<"X">>
S_John   == <<"J","o","h","n">>
S_Jane   == <<"J","a","n","e">>
S_Doe    == <<"D","o","e">>
S_DoeJr  == <<"D","o","e","J","r">>
S_Smith  == <<"S","m","i","t","h">>
\* a text with a character the embedded Helvetica font cannot encode
S_Snow   == <<"U+2603">>

\* String.prototype.includes
includes(s, sub) ==
    \E i \in 1..(Len(s) - Len(sub) + 1) : SubSeq(s, i, i + Len(sub) - 1) = sub

\* names of the blank form's file
N_form   == <<"f","o","r","m",".","p","d","f">>
N_G2210  == <<"G","2","2","1","0",".","P","D","F">>
N_g221   == <<"g","2","2","1",".","p","d","f">>

\* detectTemplate(fileName): the template's name, "null" for none
detectTemplate(fileName) ==
    LET lowerName == toLowerCase(fileName)
    IN  IF \/ includes(lowerName, <<"g","2","2","1","0">>)
           \/ includes(lowerName, <<"b","e","f","u","n","d","b","e","r","i","c","h","t">>)
           \/ includes(lowerName, <<"a","e","r","z","t","l","i","c","h","e","r">>)
           \/ includes(lowerName, <<"U+00E4","r","z","t","l","i","c","h","e","r">>)
        THEN "G2210-11"
        ELSE "null"

----------------------------------------------------------------------------
(* Field model: types.ts *)

NoValidation == [present |-> FALSE, status |-> "undefined", message |-> "",
                 suggestion |-> EmptyStr]

Validation(st, message, suggestion) ==
    [present |-> TRUE, status |-> st, message |-> message,
     suggestion |-> suggestion]

NoCoordinates == [present |-> FALSE, pageIndex |-> 0, x |-> 0, y |-> 0]

Coordinates(pageIndex, x, y) ==
    [present |-> TRUE, pageIndex |-> pageIndex, x |-> x, y |-> y]

\* ExtractedField; key = "" stands for an absent (or empty) key
ExtractedField(key, value, validation, isVerified, coordinates) ==
    [key |-> key, value |-> value, validation |-> validation,
     isVerified |-> isVerified, coordinates |-> coordinates]

\* f.validation?.status
StatusOf(f) == f.validation.status

----------------------------------------------------------------------------
(* Reconciliation store: components/ReviewPanel.tsx *)

\* history record of an operation that addresses no field
Op(name) ==
    [op |-> name, index |-> 0, arg |-> EmptyStr,
     prev |-> ExtractedField("", EmptyStr, NoValidation, FALSE, NoCoordinates)]

\* handleUpdate as it would be if the edit did not reset the validation
handleUpdateListKeepingValidation(fs, index, newValue) ==
    [fs EXCEPT ![index] = [@ EXCEPT !.value = newValue, !.isVerified = TRUE]]

\* handleUpdate, lines 119-126: the new list
handleUpdateList(fs, index, newValue) ==
    [fs EXCEPT ![index] =
        [@ EXCEPT !.value = newValue,
                  !.isVerified = TRUE,
                  \* { ...validation!, status: 'VALID', message: 'Manually verified' }
                  !.validation = [@ EXCEPT !.present = TRUE,
                                           !.status = "VALID",
                                           !.message = "Manually verified"]]]

\* toggleVerify as it would be if it set the flag instead of flipping it
toggleVerifyListSetting(fs, index) ==
    [fs EXCEPT ![index] = [@ EXCEPT !.isVerified = TRUE]]

\* toggleVerify, lines 131-135: the new list
toggleVerifyList(fs, index) ==
    [fs EXCEPT ![index] = [@ EXCEPT !.isVerified = ~@]]

\* field.validation?.suggestion is truthy
HasSuggestion(f) == f.validation.present /\ f.validation.suggestion # EmptyStr

\* verifiedCount / totalCount
verifiedCount == Cardinality({i \in DOMAIN fields : fields[i].isVerified})
totalCount == Len(fields)

\* progressPercent, line 55: Math.round((verifiedCount / totalCount) * 100);
\* 0 / 0 is NaN and Math.round(NaN) is NaN; Math.round rounds a half up.
\* (Where the double product falls just below an exact half, as for 23/40,
\* Math.round gives one less; up to 400 fields no such value is near 100.)
progressPercent ==
    IF totalCount = 0 THEN [isNaN |-> TRUE, value |-> 0]
    ELSE [isNaN |-> FALSE,
          value |-> (200 * verifiedCount + totalCount) \div (2 * totalCount)]

\* the text of the verification footer, lines 523-531
footerText ==
    IF ~progressPercent.isNaN /\ progressPercent.value = 100
    THEN "Ready to Download"
    ELSE "Review in progress"

\* fieldsRequiresAttention, as the set of its indices
fieldsRequiresAttention == {i \in DOMAIN fields : StatusOf(fields[i]) # "VALID"}

\* a comparator whose first key is "needs attention and unverified"
compareUnresolvedFirst(a, b) ==
    LET aUnresolved == StatusOf(a.f) # "VALID" /\ ~a.f.isVerified
        bUnresolved == StatusOf(b.f) # "VALID" /\ ~b.f.isVerified
    IN  IF aUnresolved /\ ~bUnresolved THEN -1
        ELSE IF ~aUnresolved /\ bUnresolved THEN 1
        ELSE IF ~a.f.isVerified /\ b.f.isVerified THEN -1
        ELSE IF a.f.isVerified /\ ~b.f.isVerified THEN 1
        ELSE a.originalIndex - b.originalIndex

\* the comparator handed to sort() in displayedFields
compare(a, b) ==
    LET aNeedsAttn == StatusOf(a.f) # "VALID"
        bNeedsAttn == StatusOf(b.f) # "VALID"
    IN  IF aNeedsAttn /\ ~bNeedsAttn THEN -1
        ELSE IF ~aNeedsAttn /\ bNeedsAttn THEN 1
        ELSE IF ~a.f.isVerified /\ b.f.isVerified THEN -1
        ELSE IF a.f.isVerified /\ ~b.f.isVerified THEN 1
        ELSE a.originalIndex - b.originalIndex

\* a filter predicate that looks at the validation status alone
passesFilterByStatus(e, mode) ==
    mode = "ALL" \/ StatusOf(e.f) # "VALID"

\* the predicate handed to filter() in displayedFields
passesFilter(e, mode) ==
    mode = "ALL" \/ (StatusOf(e.f) # "VALID" /\ ~e.f.isVerified)

\* Array.prototype.sort with a comparator: a stable insertion sort
RECURSIVE InsertSorted(_, _)
InsertSorted(e, sorted) ==
    IF sorted = << >> THEN <<e>>
    ELSE IF compare(e, Head(sorted)) < 0 THEN <<e>> \o sorted
    ELSE <<Head(sorted)>> \o InsertSorted(e, Tail(sorted))

RECURSIVE SortFrom(_, _)
SortFrom(list, n) ==
    IF n = 0 THEN << >> ELSE InsertSorted(list[n], SortFrom(list, n - 1))

\* fields.map((f, i) => ({ ...f, originalIndex: i }))
WithOriginalIndex(fs) == [i \in DOMAIN fs |-> [f |-> fs[i], originalIndex |-> i]]

\* RECURSIVE filter keeping the order
RECURSIVE FilterSeq(_, _)
FilterSeq(list, mode) ==
    IF list = << >> THEN << >>
    ELSE (IF passesFilter(Head(list), mode) THEN <<Head(list)>> ELSE << >>)
         \o FilterSeq(Tail(list), mode)

\* displayedFields as it would be if the indices were taken after the sort
DisplayedIndexedAfterSort(fs, mode) ==
    LET sorted == SortFrom(WithOriginalIndex(fs), Len(fs))
    IN  FilterSeq([k \in DOMAIN sorted |->
                      [f |-> sorted[k].f, originalIndex |-> k]], mode)

\* displayedFields of a list under a filter
Displayed(fs, mode) ==
    FilterSeq(SortFrom(WithOriginalIndex(fs), Len(fs)), mode)

\* displayedFields, lines 197-211
displayedFields == Displayed(fields, filterMode)

\* the status that decorates the row of a displayed field, line 396:
\* field.validation?.status || 'VALID'
rowStatus(f) == IF StatusOf(f) = "undefined" THEN "VALID" ELSE StatusOf(f)

\* the "Accept Fix" button of a displayed field is rendered, lines 489
AcceptFixShown(e) ==
    ~e.f.isVerified /\ HasSuggestion(e.f) /\ StatusOf(e.f) # "VALID"

\* the step handed no document to the user
NoDownload == [kind |-> "none", lines |-> << >>]

\* the preview effect as it would be if it did not depend on `fields`
RestartTimerNotRerun == timer' = timer

\* the preview effect runs again because `fields` changed: its clean-up
\* clears the pending timer and a new timer is set (lines 114-116)
RestartTimer == timer' = TRUE

\* handleUpdate(index, newValue)
handleUpdate(index, newValue) ==
    /\ mounted
    /\ fields' = handleUpdateList(fields, index, newValue)
    /\ RestartTimer
    /\ downloaded' = NoDownload
    /\ lastOp' = [op |-> "handleUpdate", index |-> index, arg |-> newValue,
                  prev |-> fields[index]]
    /\ UNCHANGED <<filterMode, pdfMode, formDoc, formType, mounted, inFlight,
                   started, created, revoked, previewUrl, fillArgs, fillResult>>
    /\ UNCHANGED <<formName, latexVars, appVars, serviceVars>>

\* toggleVerify(index)
toggleVerify(index) ==
    /\ mounted
    /\ fields' = toggleVerifyList(fields, index)
    /\ RestartTimer
    /\ downloaded' = NoDownload
    /\ lastOp' = [op |-> "toggleVerify", index |-> index, arg |-> EmptyStr,
                  prev |-> fields[index]]
    /\ UNCHANGED <<filterMode, pdfMode, formDoc, formType, mounted, inFlight,
                   started, created, revoked, previewUrl, fillArgs, fillResult>>
    /\ UNCHANGED <<formName, latexVars, appVars, serviceVars>>

\* applySuggestion as it would be if it only copied the suggestion
applySuggestionCopyingValue(index) ==
    /\ mounted
    /\ IF HasSuggestion(fields[index])
       THEN /\ fields' = [fields EXCEPT ![index].value =
                                          fields[index].validation.suggestion]
            /\ RestartTimer
       ELSE UNCHANGED <<fields, timer>>
    /\ downloaded' = NoDownload
    /\ lastOp' = [op |-> "applySuggestion", index |-> index,
                  arg |-> fields[index].validation.suggestion,
                  prev |-> fields[index]]
    /\ UNCHANGED <<filterMode, pdfMode, formDoc, formType, mounted, inFlight,
                   started, created, revoked, previewUrl,
                   fillArgs, fillResult>>
    /\ UNCHANGED <<formName, latexVars, appVars, serviceVars>>

\* applySuggestion(index)
applySuggestion(index) ==
    /\ mounted
    /\ IF HasSuggestion(fields[index])
       THEN /\ fields' = handleUpdateList(fields, index,
                                          fields[index].validation.suggestion)
            /\ RestartTimer
       ELSE UNCHANGED <<fields, timer>>
    /\ downloaded' = NoDownload
    /\ lastOp' = [op |-> "applySuggestion", index |-> index,
                  arg |-> fields[index].validation.suggestion,
                  prev |-> fields[index]]
    /\ UNCHANGED <<filterMode, pdfMode, formDoc, formType, mounted, inFlight,
                   started, created, revoked, previewUrl, fillArgs, fillResult>>
    /\ UNCHANGED <<formName, latexVars, appVars, serviceVars>>

\* setFilterMode(mode), lines 352 and 359; the preview effect does not
\* depend on filterMode
setFilterMode(mode) ==
    /\ mounted
    /\ mode = "ATTENTION" => fieldsRequiresAttention # {}
    /\ filterMode # mode
    /\ filterMode' = mode
    /\ downloaded' = NoDownload
    /\ lastOp' = Op("setFilterMode")
    /\ UNCHANGED <<fields, pdfMode, formDoc, formType, mounted, timer, inFlight,
                   started, created, revoked, previewUrl, fillArgs, fillResult>>
    /\ UNCHANGED <<formName, latexVars, appVars, serviceVars>>

\* values typed into a field's input box
EditValues == {S_Smith, EmptyStr}

\* the user edits the input of a displayed field
EditDisplayed ==
    \E k \in DOMAIN displayedFields : \E v \in EditValues :
        handleUpdate(displayedFields[k].originalIndex, v)

\* the user clicks the verification checkbox of a displayed field
ToggleDisplayed ==
    \E k \in DOMAIN displayedFields :
        toggleVerify(displayedFields[k].originalIndex)

\* the user clicks "Accept Fix" on a displayed field that shows it
AcceptFixDisplayed ==
    \E k \in DOMAIN displayedFields :
        /\ AcceptFixShown(displayedFields[k])
        /\ applySuggestion(displayedFields[k].originalIndex)

\* the user clicks one of the two filter buttons
SwitchFilter == \E mode \in {"ALL", "ATTENTION"} : setFilterMode(mode)

----------------------------------------------------------------------------
(* Fill engine: services/pdfService.ts, createFilledPdf *)

\* page.getSize() of the pages of the test documents (pdfDoc.addPage([612, 792]))
PageWidth == 612
PageHeight == 792

\* a text field of a document's form
TextField(writable, hasText, text) ==
    [type |-> "PDFTextField", writable |-> writable, hasText |-> hasText,
     text |-> text, checked |-> FALSE]

\* a check box of a document's form
CheckBox(checked) ==
    [type |-> "PDFCheckBox", writable |-> TRUE, hasText |-> FALSE,
     text |-> EmptyStr, checked |-> checked]

\* a document: whether PDFDocument.load accepts it, its page count, its named
\* form fields and the texts drawn on its pages
Document(loadable, pages, form) ==
    [loadable |-> loadable, pages |-> pages, form |-> form, drawn |-> {}]

\* the form of a document with named fields
NamedForm(lastNameWritable, agreeChecked) ==
    [n \in {"firstName", "lastName", "agree"} |->
        CASE n = "firstName" -> TextField(TRUE, FALSE, EmptyStr)
          [] n = "lastName"  -> TextField(lastNameWritable, TRUE, S_Doe)
          [] n = "agree"     -> CheckBox(agreeChecked)]

\* the form of a flat document
NoForm == [n \in {} |-> CheckBox(FALSE)]

\* a document PDFDocument.load rejects (invalid base64, not a PDF)
CorruptDocument == Document(FALSE, 0, NoForm)

\* PDFTextField.getText(): undefined for a field without value
getText(doc, name) ==
    IF doc.form[name].hasText
    THEN [defined |-> TRUE, text |-> doc.form[name].text]
    ELSE [defined |-> FALSE, text |-> EmptyStr]

\* getPdfFields, lines 9-22: the names and types, [] for a document that
\* cannot be loaded
getPdfFields(doc) ==
    IF doc.loadable
    THEN {[name |-> n, type |-> doc.form[n].type] : n \in DOMAIN doc.form}
    ELSE {}

\* a field map in which the first value assigned to a key stays
RECURSIVE PutEntryKeepingFirst(_, _, _)
PutEntryKeepingFirst(entries, key, value) ==
    IF entries = << >> THEN <<[key |-> key, value |-> value]>>
    ELSE IF Head(entries).key = key THEN entries
         ELSE <<Head(entries)>> \o PutEntryKeepingFirst(Tail(entries), key, value)

\* fieldMap[f.key] = f.value for one field: keys keep their first position
\* (Object.entries order), the value is the last one assigned
RECURSIVE PutEntry(_, _, _)
PutEntry(entries, key, value) ==
    IF entries = << >> THEN <<[key |-> key, value |-> value]>>
    ELSE IF Head(entries).key = key
         THEN <<[key |-> key, value |-> value]>> \o Tail(entries)
         ELSE <<Head(entries)>> \o PutEntry(Tail(entries), key, value)

\* lines 32-35: Object.entries(fieldMap) after the forEach over fs[1..n]
RECURSIVE FieldMapEntries(_, _)
FieldMapEntries(fs, n) ==
    IF n = 0 THEN << >>
    ELSE IF fs[n].key # ""
         THEN PutEntry(FieldMapEntries(fs, n - 1), fs[n].key, fs[n].value)
         ELSE FieldMapEntries(fs, n - 1)

\* the check box test without toLowerCase
isCheckedCaseSensitive(value) == value = S_true \/ value = S_yes

\* the check box test of line 45
isChecked(value) ==
    toLowerCase(value) = S_true \/ toLowerCase(value) = S_yes

\* lines 39-48, the body of the inner try for one entry; threw = an
\* exception left the body (form.getField throws for an unknown name,
\* setText for a field that cannot be written; check() and uncheck() take
\* no value and do not fail)
WriteEntry(doc, key, value) ==
    IF key \notin DOMAIN doc.form
    THEN [threw |-> TRUE, doc |-> doc]
    ELSE LET field == doc.form[key] IN
         IF field.type = "PDFTextField"
         THEN IF field.writable
              \* setText('') removes the value: getText() is then undefined
              THEN [threw |-> FALSE,
                    doc |-> [doc EXCEPT !.form[key].hasText = (value # EmptyStr),
                                        !.form[key].text = value]]
              ELSE [threw |-> TRUE, doc |-> doc]
         ELSE IF field.type = "PDFCheckBox"
         THEN [threw |-> FALSE,
               doc |-> [doc EXCEPT !.form[key].checked = isChecked(value)]]
         ELSE [threw |-> FALSE, doc |-> doc]

\* the loop of lines 37-52 as it would be without the inner try/catch: the
\* first exception ends the loop (the outer catch of line 53 takes it)
RECURSIVE NamedFieldsLoopAborting(_, _)
NamedFieldsLoopAborting(doc, entries) ==
    IF entries = << >> THEN doc
    ELSE LET r == WriteEntry(doc, Head(entries).key, Head(entries).value)
         IN  IF r.threw THEN doc
             ELSE NamedFieldsLoopAborting(r.doc, Tail(entries))

\* the loop of lines 37-52: an exception of one entry is caught and the
\* loop goes on with the next entry
RECURSIVE NamedFieldsLoop(_, _)
NamedFieldsLoop(doc, entries) ==
    IF entries = << >> THEN doc
    ELSE LET r == WriteEntry(doc, Head(entries).key, Head(entries).value)
         IN  NamedFieldsLoop(IF r.threw THEN doc ELSE r.doc, Tail(entries))

\* page.drawText throws for a text the embedded font cannot encode
Encodable(value) == \A k \in DOMAIN value : value[k] # "U+2603"

\* the skip test without the upper bound on pageIndex
SkippedByOverlayNoUpperBound(doc, f) ==
    \/ f.value = EmptyStr
    \/ ~f.coordinates.present
    \/ f.coordinates.pageIndex < 0

\* lines 62 and 67: the field is skipped (`continue`)
SkippedByOverlay(doc, f) ==
    \/ f.value = EmptyStr
    \/ ~f.coordinates.present
    \/ f.coordinates.pageIndex < 0
    \/ f.coordinates.pageIndex >= doc.pages

\* pdfY as it would be without the flip of the vertical axis
pdfYTopDown(y, height) == y * height

\* lines 78-83, in thousandths of a point: pdfX, pdfY and adjustedY
pdfX(x, width) == x * width
pdfY(y, height) == height * 1000 - y * height
adjustedY(y, height) == pdfY(y, height) - 4000

\* lines 86-92: what page.drawText puts on the page
DrawnText(f) ==
    [pageIndex |-> f.coordinates.pageIndex,
     x |-> pdfX(f.coordinates.x, PageWidth),
     y |-> adjustedY(f.coordinates.y, PageHeight),
     size |-> 10,
     text |-> f.value]

\* lines 60-96 for one field
DrawField(doc, f) ==
    IF SkippedByOverlay(doc, f) THEN doc
    ELSE IF Encodable(f.value)
         THEN [doc EXCEPT !.drawn = @ \cup {DrawnText(f)}]
         ELSE doc    \* drawText threw: caught at line 93

\* the loop of lines 60-96 over fs[1..n]
RECURSIVE OverlayLoop(_, _, _)
OverlayLoop(doc, fs, n) ==
    IF n = 0 THEN doc ELSE DrawField(OverlayLoop(doc, fs, n - 1), fs[n])

\* createFilledPdf(base64, fields, isFillable): threw = the promise rejects
createFilledPdf(doc, fs, isFillable) ==
    IF ~doc.loadable
    THEN [threw |-> TRUE, doc |-> doc]
    ELSE IF isFillable
         THEN [threw |-> FALSE,
               doc |-> NamedFieldsLoop(doc, FieldMapEntries(fs, Len(fs)))]
         ELSE [threw |-> FALSE, doc |-> OverlayLoop(doc, fs, Len(fs))]

----------------------------------------------------------------------------
(* Template-render service client: services/latexService.ts *)

\* what fetch does: it rejects (network failure, or the abort of a timeout)
\* or it resolves with a response of some status code and body
NetworkFailure == [kind |-> "network", code |-> 0, body |-> "none"]
Timeout == [kind |-> "timeout", code |-> 0, body |-> "none"]
HttpResponse(code, body) == [kind |-> "http", code |-> code, body |-> body]

\* the bodies of a response: one that response.json() rejects, the JSON
\* value null, the object {}, an object {error: 'boom'} and an object with
\* the property the endpoint is asked for
Bodies == {"unreadable", "null", "empty", "error", "payload"}

\* response.ok
ok(r) == r.code >= 200 /\ r.code <= 299

\* the result of a block of code: it threw, or it returned a value
Throw(message) == [threw |-> TRUE, value |-> message]
Return(value) == [threw |-> FALSE, value |-> value]

\* await response.json() followed by the read of a property of the value
JsonProperty(r) ==
    CASE r.body = "unreadable" -> Throw("SyntaxError")
      [] r.body = "null"       -> Throw("TypeError")
      [] r.body = "payload"    -> Return([defined |-> TRUE])
      [] OTHER                 -> Return([defined |-> FALSE])

\* isLatexServiceAvailable without its catch
isLatexServiceAvailableUncaught(r) ==
    IF r.kind # "http" THEN Throw(r.kind) ELSE Return(ok(r))

\* isLatexServiceAvailable, lines 133-143
isLatexServiceAvailable(r) ==
    LET try == IF r.kind # "http" THEN Throw(r.kind) ELSE Return(ok(r))
    IN  IF try.threw THEN Return(FALSE) ELSE try

\* getAvailableTemplates, lines 148-160
getAvailableTemplates(r) ==
    LET try ==
          IF r.kind # "http" THEN Throw(r.kind)
          ELSE IF ~ok(r) THEN Throw("Failed to fetch templates")
          ELSE LET data == JsonProperty(r)
               IN  IF data.threw THEN data
                   \* data.templates || []
                   ELSE Return(IF data.value.defined THEN <<"G2210-11">>
                               ELSE << >>)
    IN  IF try.threw THEN Return(<< >>) ELSE try

\* getTemplateFieldMapping, lines 165-178
getTemplateFieldMapping(r) ==
    LET try ==
          IF r.kind # "http" THEN Throw(r.kind)
          ELSE IF ~ok(r) THEN Return("null")
          ELSE LET data == JsonProperty(r)
               IN  IF data.threw THEN data
                   \* data.mapping || null
                   ELSE Return(IF data.value.defined THEN "mapping" ELSE "null")
    IN  IF try.threw THEN Return("null") ELSE try

\* the message of the error thrown for a response that is not ok:
\* errorData.error || `HTTP ${response.status}`, where errorData is {} for
\* an unreadable body
NotOkError(r) ==
    CASE r.body = "null"  -> Throw("TypeError")
      [] r.body = "error" -> Throw("boom")
      [] r.code = 500     -> Throw("HTTP 500")
      [] OTHER            -> Throw("HTTP 404")

\* the PDF the service renders from the template and the fields' values
LatexRender(fs) ==
    [loadable |-> TRUE, pages |-> 1, form |-> NoForm,
     drawn |-> {[template |-> "G2210-11", index |-> i, text |-> fs[i].value] :
                   i \in DOMAIN fs}]

\* generateLatexPdf, lines 183-221
generateLatexPdf(r, fs) ==
    LET try ==
          IF r.kind # "http" THEN Throw(r.kind)
          ELSE IF ~ok(r) THEN NotOkError(r)
          ELSE LET data == JsonProperty(r)
               IN  IF data.threw THEN data
                   ELSE Return([success |-> TRUE,
                                pdf |-> data.value.defined,
                                doc |-> IF data.value.defined
                                        THEN LatexRender(fs)
                                        ELSE CorruptDocument,
                                error |-> "undefined"])
    IN  IF try.threw
        THEN Return([success |-> FALSE, pdf |-> FALSE, doc |-> CorruptDocument,
                     error |-> try.value])
        ELSE try

\* previewLatexSource, lines 226-256
previewLatexSource(r) ==
    LET try ==
          IF r.kind # "http" THEN Throw(r.kind)
          ELSE IF ~ok(r) THEN NotOkError(r)
          ELSE LET data == JsonProperty(r)
               IN  IF data.threw THEN data
                   ELSE Return([latex |-> data.value.defined,
                                error |-> "undefined"])
    IN  IF try.threw THEN Return([latex |-> FALSE, error |-> try.value])
        ELSE try

----------------------------------------------------------------------------
(* Preview regeneration and download: components/ReviewPanel.tsx *)

\* previewUrl = null
NoUrl == [kind |-> "null", id |-> 0, doc |-> CorruptDocument]

\* an object URL made from the bytes createFilledPdf returned
BlobUrl(id, doc) == [kind |-> "blob", id |-> id, doc |-> doc]

\* formFile.previewUrl, the data URL of an image form
FileUrl == [kind |-> "file", id |-> 0, doc |-> CorruptDocument]

\* the object URLs created and not released
Unreleased == (1..created) \ revoked

\* latexPdfBase64 = null
NoPdf == CorruptDocument

\* detectedTemplate, line 37
detectedTemplate == detectTemplate(formName)

\* the prop isFillablePdf, App.tsx line 94
isFillablePdf == pdfFields # {}

\* what the template-render service may answer to the panel
ServiceAnswers ==
    {NetworkFailure, HttpResponse(500, "error"), HttpResponse(200, "empty"),
     HttpResponse(200, "payload")}

\* a state setter of the preview effect's dependencies ran: when the value
\* changed the effect runs again, clears the pending timer and sets a new one
RestartTimerIf(changed) == timer' = IF changed THEN TRUE ELSE timer

\* checkLatex, lines 41-48, after its await: the health check settled
checkLatex ==
    /\ healthCheck
    /\ healthCheck' = FALSE
    /\ \E r \in {NetworkFailure, HttpResponse(500, "error"),
                 HttpResponse(200, "payload")} :
         LET available == isLatexServiceAvailable(r).value
             switch == available /\ detectedTemplate # "null" /\ ~isFillablePdf
         IN  IF mounted
             THEN /\ latexAvailable' = IF available THEN "true" ELSE "false"
                  /\ pdfMode' = IF switch THEN "latex" ELSE pdfMode
                  /\ RestartTimerIf(switch /\ pdfMode # "latex")
             ELSE UNCHANGED <<latexAvailable, pdfMode, timer>>
    /\ downloaded' = NoDownload
    /\ lastOp' = Op("checkLatex")
    /\ UNCHANGED <<fields, filterMode, formDoc, formType, mounted, inFlight,
                   started, created, revoked, previewUrl, fillArgs, fillResult, formName, latexPdfBase64,
                   isGenerating, latexCalls, latexStarted, appVars,
                   serviceVars>>

\* the mode switcher, lines 287-297
switchMode ==
    /\ mounted
    /\ latexAvailable = "true"
    /\ detectedTemplate # "null"
    /\ LET newMode == IF pdfMode = "latex" THEN "overlay" ELSE "latex"
       IN  /\ pdfMode' = newMode
           /\ latexPdfBase64' = IF newMode = "latex" THEN NoPdf
                                ELSE latexPdfBase64
    /\ RestartTimer
    /\ downloaded' = NoDownload
    /\ lastOp' = Op("switchMode")
    /\ UNCHANGED <<fields, filterMode, formDoc, formType, mounted, inFlight,
                   started, created, revoked, previewUrl, fillArgs, fillResult, formName, latexAvailable,
                   isGenerating, healthCheck, latexCalls, latexStarted,
                   appVars, serviceVars>>

\* the fields of the request body of generateLatexPdf, lines 196-200
RequestFields(fs) == [i \in DOMAIN fs |-> [key |-> fs[i].key, value |-> fs[i].value]]

\* generateLatexPreview, lines 62-67, up to its await
generateLatexPreviewStarts ==
    /\ latexStarted' = latexStarted + 1
    /\ isGenerating' = TRUE
    /\ latexCalls' = latexCalls \cup
         {[id |-> latexStarted + 1, purpose |-> "preview",
           fields |-> RequestFields(fields)]}

\* the timer of line 114 fires and updatePreview runs up to its first await
\* (lines 88-100), or to its end for an image form (line 109)
updatePreview ==
    /\ mounted
    /\ timer
    /\ timer' = FALSE
    /\ IF pdfMode = "latex"
       THEN IF latexPdfBase64 = NoPdf
            THEN /\ latexStarted < MaxLatexCalls
                 /\ generateLatexPreviewStarts
                 /\ UNCHANGED <<started, inFlight, previewUrl>>
            ELSE UNCHANGED <<started, isGenerating, latexCalls, latexStarted,
                             inFlight, previewUrl>>
       ELSE IF formType = "application/pdf"
       THEN /\ started < MaxFills
            /\ started' = started + 1
            /\ inFlight' = inFlight \cup
                 {[id |-> started + 1,
                   isFillable |-> (pdfMode = "fillable"),
                   result |-> createFilledPdf(formDoc, fields, pdfMode = "fillable")]}
            /\ UNCHANGED <<previewUrl, isGenerating, latexCalls, latexStarted>>
       ELSE /\ previewUrl' = FileUrl
            /\ UNCHANGED <<started, inFlight, isGenerating, latexCalls,
                           latexStarted>>
    /\ downloaded' = NoDownload
    /\ lastOp' = Op("updatePreview")
    /\ UNCHANGED <<fields, filterMode, pdfMode, formDoc, formType, mounted,
                   created, revoked, fillArgs, fillResult,
                   formName, latexAvailable, latexPdfBase64, healthCheck,
                   appVars, serviceVars>>

\* updatePreview after its await as it would be if a failed fill cleared the
\* preview
updatePreviewSettledClearing(call) ==
    /\ inFlight' = inFlight \ {call}
    /\ IF call.result.threw
       THEN /\ previewUrl' = NoUrl
            /\ UNCHANGED created
       ELSE /\ created' = created + 1
            /\ previewUrl' = IF mounted THEN BlobUrl(created + 1, call.result.doc)
                             ELSE previewUrl
    /\ downloaded' = NoDownload
    /\ lastOp' = Op("updatePreviewSettled")
    /\ UNCHANGED <<fields, filterMode, pdfMode, formDoc, formType, mounted,
                   timer, started, revoked, fillArgs, fillResult>>
    /\ UNCHANGED <<formName, latexVars, appVars, serviceVars>>

\* a createFilledPdf call settles and updatePreview goes on after its await:
\* lines 101-104 when it resolved, the catch of lines 105-107 when it
\* rejected.  The clean-up function returned at line 104 is the result of an
\* async callback handed to setTimeout: nobody ever calls it.
updatePreviewSettled(call) ==
    /\ inFlight' = inFlight \ {call}
    /\ IF call.result.threw
       THEN UNCHANGED <<created, previewUrl>>
       ELSE /\ created' = created + 1
            \* a state setter of an unmounted component changes nothing
            /\ previewUrl' = IF mounted THEN BlobUrl(created + 1, call.result.doc)
                             ELSE previewUrl
    /\ downloaded' = NoDownload
    /\ lastOp' = Op("updatePreviewSettled")
    /\ UNCHANGED <<fields, filterMode, pdfMode, formDoc, formType, mounted,
                   timer, started, revoked, fillArgs, fillResult>>
    /\ UNCHANGED <<formName, latexVars, appVars, serviceVars>>

\* the fills in flight settle in any order
FillSettles == \E call \in inFlight : updatePreviewSettled(call)

\* handleRegenerateLatex, lines 191-194 (the button is disabled while
\* isGenerating)
handleRegenerateLatex ==
    /\ mounted
    /\ pdfMode = "latex"
    /\ ~isGenerating
    /\ latexStarted < MaxLatexCalls
    /\ latexPdfBase64' = NoPdf
    /\ RestartTimerIf(latexPdfBase64 # NoPdf)
    /\ generateLatexPreviewStarts
    /\ downloaded' = NoDownload
    /\ lastOp' = Op("handleRegenerateLatex")
    /\ UNCHANGED <<fields, filterMode, pdfMode, formDoc, formType, mounted,
                   inFlight, started, created, revoked, previewUrl, fillArgs, fillResult, formName, latexAvailable,
                   healthCheck, appVars, serviceVars>>

\* generateLatexPreview after its await, lines 68-83
generateLatexPreviewSettled(call, r) ==
    LET result == generateLatexPdf(r, call.fields).value
    IN  /\ call.purpose = "preview"
        /\ latexCalls' = latexCalls \ {call}
        /\ IF result.success /\ result.pdf
           THEN /\ created' = created + 1
                /\ IF mounted
                   THEN /\ latexPdfBase64' = result.doc
                        /\ previewUrl' = BlobUrl(created + 1, result.doc)
                        /\ isGenerating' = FALSE
                        /\ RestartTimerIf(latexPdfBase64 # result.doc)
                   ELSE UNCHANGED <<latexPdfBase64, previewUrl, isGenerating,
                                    timer>>
                /\ UNCHANGED pdfMode
           ELSE \* fallback to overlay mode
                /\ IF mounted
                   THEN /\ pdfMode' = "overlay"
                        /\ isGenerating' = FALSE
                        /\ RestartTimerIf(pdfMode # "overlay")
                   ELSE UNCHANGED <<pdfMode, isGenerating, timer>>
                /\ UNCHANGED <<created, latexPdfBase64, previewUrl>>
        /\ downloaded' = NoDownload
        /\ lastOp' = Op("generateLatexPreviewSettled")
        /\ UNCHANGED <<fields, filterMode, formDoc, formType, mounted,
                       inFlight, started, revoked, fillArgs,
                       fillResult, formName, latexAvailable, healthCheck,
                       latexStarted, appVars, serviceVars>>

\* handleDownload, lines 146-188, up to its first await.  In LaTeX mode a
\* fresh PDF is requested from the service (lines 148-151); for a PDF form
\* with a preview the preview URL is downloaded (171-177); otherwise a jsPDF
\* text report of the field list is saved (178-187).
handleDownload ==
    /\ mounted
    /\ IF pdfMode = "latex" /\ detectedTemplate # "null"
       THEN /\ latexStarted < MaxLatexCalls
            /\ latexStarted' = latexStarted + 1
            /\ isGenerating' = TRUE
            /\ latexCalls' = latexCalls \cup
                 {[id |-> latexStarted + 1, purpose |-> "download",
                   fields |-> RequestFields(fields)]}
            /\ downloaded' = NoDownload
       ELSE /\ downloaded' =
                 IF formType = "application/pdf" /\ previewUrl.kind # "null"
                 THEN [kind |-> "preview", doc |-> previewUrl.doc, lines |-> << >>]
                 ELSE [kind |-> "report", doc |-> CorruptDocument,
                       lines |-> [i \in DOMAIN fields |-> fields[i].value]]
            /\ UNCHANGED <<isGenerating, latexCalls, latexStarted>>
    /\ lastOp' = Op("handleDownload")
    /\ UNCHANGED <<fields, filterMode, pdfMode, formDoc, formType, mounted,
                   timer, inFlight, started, created, revoked, previewUrl,
                   fillArgs, fillResult, formName, latexAvailable,
                   latexPdfBase64, healthCheck, appVars, serviceVars>>

\* handleDownload after its await, lines 152-168: the object URL of the
\* download is created and revoked in the same step
handleDownloadSettled(call, r) ==
    LET result == generateLatexPdf(r, call.fields).value
    IN  /\ call.purpose = "download"
        /\ latexCalls' = latexCalls \ {call}
        /\ downloaded' =
             IF result.success /\ result.pdf
             THEN [kind |-> "latex", doc |-> result.doc, lines |-> << >>]
             ELSE [kind |-> "alert", doc |-> CorruptDocument, lines |-> << >>]
        /\ isGenerating' = IF mounted THEN FALSE ELSE isGenerating
        /\ lastOp' = Op("handleDownloadSettled")
        /\ UNCHANGED <<fields, filterMode, pdfMode, formDoc, formType, mounted,
                       timer, inFlight, started, created, revoked, previewUrl,
                       fillArgs, fillResult, formName, latexAvailable,
                       latexPdfBase64, healthCheck, latexStarted, appVars,
                       serviceVars>>

\* the template-render service answers a call of the panel
LatexSettles ==
    \E call \in latexCalls : \E r \in ServiceAnswers :
        \/ generateLatexPreviewSettled(call, r)
        \/ handleDownloadSettled(call, r)

\* the review panel is unmounted (onReset): the clean-up of the preview
\* effect runs, line 115
Unmount ==
    /\ mounted
    /\ mounted' = FALSE
    /\ timer' = FALSE
    /\ downloaded' = NoDownload
    /\ lastOp' = Op("Unmount")
    /\ UNCHANGED <<fields, filterMode, pdfMode, formDoc, formType, inFlight,
                   started, created, revoked, previewUrl, fillArgs, fillResult>>
    /\ UNCHANGED <<formName, latexVars, appVars, serviceVars>>

----------------------------------------------------------------------------
(* Extraction: services/geminiService.ts, and the App shell: App.tsx *)

\* getExpectedFields(templateName), the first labels of the list
getExpectedFields(templateName) ==
    IF templateName = "G2210-11"
    THEN <<"Versicherungsnummer", "ABT.-Nr.", "Name, Vorname">>
    ELSE << >>

\* the mode-specific part of systemPrompt, lines 190-245: the MODE line, the
\* field IDs and the labels it lists
systemPrompt(fileName, fieldInfos) ==
    LET detected == detectTemplate(fileName)
        expectedFields == IF detected # "null" THEN getExpectedFields(detected)
                          ELSE << >>
    IN  IF detected = "G2210-11"
        THEN [mode |-> "DETECTED FORM: G2210-11", fieldList |-> {},
              labels |-> getExpectedFields("G2210-11")]
        ELSE IF fieldInfos # {}
        THEN [mode |-> "FILLABLE PDF", fieldList |-> fieldInfos,
              labels |-> << >>]
        ELSE IF expectedFields # << >>
        THEN [mode |-> "TEMPLATE-BASED EXTRACTION", fieldList |-> {},
              labels |-> expectedFields]
        ELSE [mode |-> "VISUAL FILLING", fieldList |-> {}, labels |-> << >>]

\* what ai.models.generateContent does: it rejects with an error, or it
\* resolves with a response whose text may be missing
Rejected(message) == [kind |-> "rejected", message |-> message, text |-> "undefined"]
Resolved(text) == [kind |-> "resolved", message |-> "", text |-> text]

\* the field list of a well-formed response; the extraction sets no isVerified
ResponseFields ==
    <<ExtractedField("firstName", S_John, Validation("VALID", "", EmptyStr),
                     FALSE, NoCoordinates)>>

T_notJson == "not valid json"
T_noFields == "{\"summary\":\"Test\"}"
T_null == "null"
T_formResponse == "{\"summary\":\"Test\",\"fields\":[...]}"

\* JSON.parse(text)
JSONparse(text) ==
    CASE text = T_formResponse ->
            Return([isNull |-> FALSE, summary |-> "Test", hasFields |-> TRUE,
                    fields |-> ResponseFields])
      [] text = T_noFields ->
            Return([isNull |-> FALSE, summary |-> "Test", hasFields |-> FALSE,
                    fields |-> << >>])
      [] text = T_null ->
            Return([isNull |-> TRUE, summary |-> "", hasFields |-> FALSE,
                    fields |-> << >>])
      [] OTHER -> Throw("SyntaxError")

GeminiOutcomes ==
    {Rejected("API rate limit exceeded"), Rejected(""),
     Resolved("undefined"), Resolved(""), Resolved(T_notJson),
     Resolved(T_noFields), Resolved(T_null), Resolved(T_formResponse)}

\* processDocuments as it would be if getAI tested the key for null only
processDocumentsNullKeyOnly(fileName, fieldInfos, key, outcome) ==
    LET try ==
          IF key = "null" THEN Throw("Kein API Key gesetzt. Bitte gib deinen Gemini API Key ein.")
          ELSE IF outcome.kind = "rejected" THEN Throw(outcome.message)
          ELSE IF outcome.text \in {"undefined", ""}
               THEN Throw("No response from Gemini")
               ELSE JSONparse(outcome.text)
    IN  [threw |-> try.threw, value |-> try.value,
         sent |-> key # "null",
         prompt |-> systemPrompt(fileName, fieldInfos)]

\* processDocuments(blankForm, sourceDocument, pdfFields), lines 161-285:
\* getAI (lines 7-13), the request, the test of the text and JSON.parse; the
\* catch of lines 281-284 throws the error again
processDocuments(fileName, fieldInfos, key, outcome) ==
    LET try ==
          IF key \in {"null", ""} THEN Throw("Kein API Key gesetzt. Bitte gib deinen Gemini API Key ein.")
          ELSE IF outcome.kind = "rejected" THEN Throw(outcome.message)
          ELSE IF outcome.text \in {"undefined", ""}
               THEN Throw("No response from Gemini")
               ELSE JSONparse(outcome.text)
    IN  [threw |-> try.threw, value |-> try.value,
         sent |-> key \notin {"null", ""},
         prompt |-> systemPrompt(fileName, fieldInfos)]

\* the panel-only state, which the App shell does not touch
panelVars == <<filterMode, timer, inFlight, started, created, revoked,
               previewUrl, downloaded, latexVars>>

\* fill engine run
fillVars == <<fillArgs, fillResult>>

\* formFile is not null
formFile == formType # "null"

\* responseData = null
NoResponseData == [isNull |-> TRUE, summary |-> "", hasFields |-> FALSE,
                   fields |-> << >>]

\* no processDocuments call is pending
NoAnalysis == [pending |-> FALSE, fileName |-> EmptyStr, pdfFields |-> {},
               key |-> "null", sent |-> FALSE,
               prompt |-> systemPrompt(EmptyStr, {})]

\* the form files a user selects
FormFiles ==
    {[doc |-> d, type |-> "application/pdf", name |-> n] :
        d \in {Document(TRUE, 1, NamedForm(TRUE, FALSE)), Document(TRUE, 1, NoForm)},
        n \in {N_form, N_G2210, N_g221}}
    \cup {[doc |-> CorruptDocument, type |-> "image/png", name |-> N_form]}

\* onFileSelect(null): the selected file is cleared
NoFile == [doc |-> CorruptDocument, type |-> "null", name |-> EmptyStr]

\* setFormFile(data) with the effect of lines 25-36: analyzePdf runs up to
\* its await for a PDF, and to its end otherwise
setFormFile(file) ==
    /\ status \in {"IDLE", "ERROR"}
    /\ formDoc' = file.doc
    /\ formType' = file.type
    /\ formName' = file.name
    /\ IF file.type = "application/pdf"
       THEN /\ inspections' = inspections \cup {getPdfFields(file.doc)}
            /\ UNCHANGED pdfFields
       ELSE /\ pdfFields' = {}
            /\ UNCHANGED inspections
    /\ lastOp' = Op("setFormFile")
    /\ UNCHANGED <<fields, pdfMode, mounted, status, error, responseData,
                   sourceFile, analysis, apiKey, panelVars, fillVars,
                   serviceVars>>

\* analyzePdf after its await, lines 28-30
analyzePdfSettled(found) ==
    /\ inspections' = inspections \ {found}
    /\ pdfFields' = found
    /\ lastOp' = Op("analyzePdfSettled")
    /\ UNCHANGED <<fields, pdfMode, formDoc, formType, formName, mounted,
                   status, error, responseData, sourceFile, analysis, apiKey,
                   panelVars, fillVars, serviceVars>>

\* setSourceFile(data)
setSourceFile(selected) ==
    /\ status \in {"IDLE", "ERROR"}
    /\ sourceFile # selected
    /\ sourceFile' = selected
    /\ lastOp' = Op("setSourceFile")
    /\ UNCHANGED <<fields, pdfMode, formDoc, formType, formName, mounted,
                   status, error, responseData, pdfFields, analysis,
                   inspections, apiKey, panelVars, fillVars, serviceVars>>

\* handleSaveApiKey(key), lines 20-23
handleSaveApiKey(key) ==
    /\ apiKey # key
    /\ apiKey' = key
    /\ lastOp' = Op("handleSaveApiKey")
    /\ UNCHANGED <<fields, pdfMode, formDoc, formType, formName, mounted,
                   status, error, responseData, pdfFields, sourceFile,
                   analysis, inspections, panelVars, fillVars, serviceVars>>

\* handleAnalyze as it would be without setError(null)
handleAnalyzeKeepingError ==
    /\ status \in {"IDLE", "ERROR"}
    /\ formFile /\ sourceFile
    /\ status' = "PROCESSING"
    /\ analysis' = [pending |-> TRUE, fileName |-> formName,
                    pdfFields |-> pdfFields,
                    key |-> apiKey,
                    sent |-> processDocuments(formName, pdfFields, apiKey,
                                              Rejected("")).sent,
                    prompt |-> systemPrompt(formName, pdfFields)]
    /\ lastOp' = Op("handleAnalyze")
    /\ UNCHANGED <<fields, pdfMode, formDoc, formType, formName, mounted,
                   error, responseData, pdfFields, sourceFile, inspections,
                   apiKey, panelVars, fillVars, serviceVars>>

\* handleAnalyze, lines 38-44, up to its await; the button is rendered in
\* the IDLE and ERROR views only
handleAnalyze ==
    /\ status \in {"IDLE", "ERROR"}
    /\ formFile /\ sourceFile
    /\ status' = "PROCESSING"
    /\ error' = "null"
    /\ analysis' = [pending |-> TRUE, fileName |-> formName,
                    pdfFields |-> pdfFields,
                    key |-> apiKey,
                    sent |-> processDocuments(formName, pdfFields, apiKey,
                                              Rejected("")).sent,
                    prompt |-> systemPrompt(formName, pdfFields)]
    /\ lastOp' = Op("handleAnalyze")
    /\ UNCHANGED <<fields, pdfMode, formDoc, formType, formName, mounted,
                   responseData, pdfFields, sourceFile, inspections, apiKey,
                   panelVars, fillVars, serviceVars>>

\* handleAnalyze after its await, lines 45-51, and the render that follows:
\* the review panel is mounted when responseData is truthy (line 65), and
\* its first render fails when responseData.fields is not a list
handleAnalyzeSettled(outcome) ==
    LET call == processDocuments(analysis.fileName, analysis.pdfFields,
                                 analysis.key, outcome)
        shown == ~call.threw /\ ~call.value.isNull /\ call.value.hasFields
    IN  /\ analysis.pending
        /\ analysis' = NoAnalysis
        /\ IF call.threw
           THEN /\ error' = IF call.value = ""
                            THEN "Something went wrong during analysis."
                            ELSE call.value
                /\ status' = "ERROR"
                /\ UNCHANGED responseData
           ELSE /\ responseData' = call.value
                /\ status' = "REVIEW"
                /\ UNCHANGED error
        /\ mounted' = shown
        /\ fields' = IF shown THEN call.value.fields ELSE fields
        /\ pdfMode' = IF shown
                      THEN (IF isFillablePdf THEN "fillable" ELSE "overlay")
                      ELSE pdfMode
        /\ lastOp' = Op("handleAnalyzeSettled")
        /\ UNCHANGED <<formDoc, formType, formName, pdfFields, sourceFile,
                       inspections, apiKey, panelVars, fillVars, serviceVars>>

\* reset, lines 54-61: the onReset of the review panel
reset ==
    /\ mounted
    /\ status' = "IDLE"
    /\ formType' = "null"
    /\ formDoc' = CorruptDocument
    /\ formName' = EmptyStr
    /\ sourceFile' = FALSE
    /\ responseData' = NoResponseData
    /\ error' = "null"
    /\ pdfFields' = {}
    /\ mounted' = FALSE
    /\ fields' = << >>
    /\ lastOp' = Op("reset")
    /\ UNCHANGED <<pdfMode, analysis, inspections, apiKey, panelVars,
                   fillVars, serviceVars>>

----------------------------------------------------------------------------
(* Specifications *)

\* all lists of at most n elements of S
ListsUpTo(S, n) == UNION {[1..k -> S] : k \in 0..n}

FlatDocument(pages) == Document(TRUE, pages, NoForm)
NamedDocument(lastNameWritable, agreeChecked) ==
    Document(TRUE, 1, NamedForm(lastNameWritable, agreeChecked))

\* isFillablePdf = pdfFields.length > 0 (App.tsx line 94) decides the
\* initial pdfMode (ReviewPanel.tsx line 32)
InitialPdfMode(doc) == IF getPdfFields(doc) # {} THEN "fillable" ELSE "overlay"

\* no function of the template-render service has been called
ServiceIdle ==
    /\ serviceCall = [fn |-> "none", response |-> NetworkFailure]
    /\ serviceResult = [state |-> "idle", threw |-> FALSE]

\* the state of a freshly mounted review panel; the preview effect has run
\* once and set its timer
PanelMounted ==
    /\ filterMode = "ALL"
    /\ mounted = TRUE
    /\ timer = TRUE
    /\ inFlight = {}
    /\ started = 0
    /\ created = 0
    /\ revoked = {}
    /\ previewUrl = NoUrl
    /\ downloaded = NoDownload
    /\ fillArgs = FALSE
    /\ fillResult = [state |-> "idle", doc |-> CorruptDocument]
    /\ lastOp = Op("init")
    /\ latexPdfBase64 = NoPdf
    /\ isGenerating = FALSE
    /\ latexCalls = {}
    /\ latexStarted = 0
    /\ ServiceIdle

\* checkLatex has called the health check of the template-render service
HealthCheckPending ==
    /\ latexAvailable = "null"
    /\ healthCheck = TRUE

\* the health check has failed: the template-render service is unreachable
ServiceUnreachable ==
    /\ latexAvailable = "false"
    /\ healthCheck = FALSE

\* the App shell while the review panel of `fields` is shown
AppInReview ==
    /\ status = "REVIEW"
    /\ error = "null"
    /\ responseData = [isNull |-> FALSE, summary |-> "Test", hasFields |-> TRUE,
                       fields |-> fields]
    /\ pdfFields = getPdfFields(formDoc)
    /\ sourceFile = TRUE
    /\ analysis = NoAnalysis
    /\ inspections = {}
    /\ apiKey = "key"

(* Reconciliation store: every list of the extraction's validation states *)

StoreValidations ==
    {NoValidation,
     Validation("VALID", "", EmptyStr),
     Validation("WARNING", "Name might be incomplete", S_DoeJr),
     Validation("INVALID", "Invalid date format", EmptyStr)}

StoreShapes ==
    {ExtractedField("", S_Doe, v, b, NoCoordinates) :
        v \in StoreValidations, b \in BOOLEAN}

\* [A: VALID/unverified, B: INVALID/unverified, C: WARNING/verified]
SortExample ==
    <<ExtractedField("", S_Doe, Validation("VALID", "", EmptyStr), FALSE,
                     NoCoordinates),
      ExtractedField("", S_Doe, Validation("INVALID", "Invalid date format",
                                           EmptyStr), FALSE, NoCoordinates),
      ExtractedField("", S_Doe, Validation("WARNING", "Name might be incomplete",
                                           S_DoeJr), TRUE, NoCoordinates)>>

\* [A: VALID/verified, B: WARNING/unverified, C: INVALID/verified]
FilterExample ==
    <<ExtractedField("", S_Doe, Validation("VALID", "", EmptyStr), TRUE,
                     NoCoordinates),
      ExtractedField("", S_Doe, Validation("WARNING", "Name might be incomplete",
                                           S_DoeJr), FALSE, NoCoordinates),
      ExtractedField("", S_Doe, Validation("INVALID", "Invalid date format",
                                           EmptyStr), TRUE, NoCoordinates)>>

InitStore ==
    /\ fields \in ListsUpTo(StoreShapes, MaxFields)
                   \cup {SortExample, FilterExample}
    /\ formDoc = FlatDocument(1)
    /\ formType = "application/pdf"
    /\ formName = N_form
    /\ pdfMode = InitialPdfMode(formDoc)
    /\ PanelMounted
    /\ ServiceUnreachable
    /\ AppInReview

NextStore ==
    \/ EditDisplayed
    \/ ToggleDisplayed
    \/ AcceptFixDisplayed
    \/ SwitchFilter

SpecStore == InitStore /\ [][NextStore]_vars

(* Reconciliation store: the three handlers called on any index *)

CallHandleUpdate ==
    \E index \in DOMAIN fields : \E v \in EditValues : handleUpdate(index, v)

CallToggleVerify == \E index \in DOMAIN fields : toggleVerify(index)

CallApplySuggestion == \E index \in DOMAIN fields : applySuggestion(index)

NextHandlers ==
    \/ CallHandleUpdate
    \/ CallToggleVerify
    \/ CallApplySuggestion

SpecHandlers == InitStore /\ [][NextHandlers]_vars

(* Review panel: the verification footer of short and long lists *)

\* the list sizes of the footer runs
FooterSizes == {0, 1, 2, 199, 200, 201}

\* n fields of which the first v are verified
FooterList(n, v) ==
    [i \in 1..n |->
        ExtractedField("", S_Doe, Validation("VALID", "", EmptyStr), i <= v,
                       NoCoordinates)]

InitFooter ==
    /\ fields \in UNION {{FooterList(n, 0), FooterList(n, n)} : n \in FooterSizes}
    /\ formDoc = FlatDocument(1)
    /\ formType = "application/pdf"
    /\ formName = N_form
    /\ pdfMode = InitialPdfMode(formDoc)
    /\ PanelMounted
    /\ ServiceUnreachable
    /\ AppInReview

\* the user works down the list: the check box of the first unverified field
\* is clicked, or that of the first field when all are verified
ToggleNextUnverified ==
    \E index \in DOMAIN fields :
        /\ \/ /\ ~fields[index].isVerified
              /\ \A j \in 1..(index - 1) : fields[j].isVerified
           \/ index = 1 /\ verifiedCount = totalCount
        /\ toggleVerify(index)

SpecFooter == InitFooter /\ [][ToggleNextUnverified]_vars

(* Fill engine: one call of createFilledPdf on bounded inputs *)

NamedShapes ==
    {ExtractedField(k, v, Validation("VALID", "", EmptyStr), FALSE, c) :
        k \in {"", "firstName", "lastName", "agree", "nonexistent"},
        v \in {EmptyStr, S_true, S_YeS, S_no, S_X},
        c \in {NoCoordinates, Coordinates(0, 500, 500)}}

OverlayShapes ==
    {ExtractedField(k, v, Validation("VALID", "", EmptyStr), FALSE, c) :
        k \in {"", "firstName"},
        v \in {EmptyStr, S_X, S_John, S_Snow},
        c \in {NoCoordinates, Coordinates(0, 500, 500), Coordinates(0, 0, 0),
               Coordinates(1, 1000, 1000), Coordinates(99, 500, 500),
               Coordinates(-1, 500, 500)}}

InitFill ==
    /\ fillArgs \in BOOLEAN
    /\ IF fillArgs
       THEN /\ fields \in ListsUpTo(NamedShapes, MaxFillFields)
            /\ formDoc \in {NamedDocument(w, c) : w \in BOOLEAN, c \in BOOLEAN}
                            \cup {CorruptDocument}
       ELSE /\ fields \in ListsUpTo(OverlayShapes, MaxFillFields)
            /\ formDoc \in {FlatDocument(1), FlatDocument(2),
                            NamedDocument(TRUE, TRUE), CorruptDocument}
    /\ fillResult = [state |-> "idle", doc |-> CorruptDocument]
    /\ formType = "application/pdf"
    /\ pdfMode = IF fillArgs THEN "fillable" ELSE "overlay"
    /\ filterMode = "ALL"
    /\ mounted = FALSE
    /\ timer = FALSE
    /\ inFlight = {}
    /\ started = 0
    /\ created = 0
    /\ revoked = {}
    /\ previewUrl = NoUrl
    /\ downloaded = NoDownload
    /\ lastOp = Op("init")
    /\ formName = N_form
    /\ latexPdfBase64 = NoPdf
    /\ isGenerating = FALSE
    /\ latexCalls = {}
    /\ latexStarted = 0
    /\ ServiceUnreachable
    /\ ServiceIdle
    /\ AppInReview

\* createFilledPdf(formFile.base64, fields, isFillable) is called and settles
CallCreateFilledPdf ==
    /\ fillResult.state = "idle"
    /\ LET r == createFilledPdf(formDoc, fields, fillArgs)
       IN  fillResult' = [state |-> IF r.threw THEN "rejected" ELSE "resolved",
                          doc |-> r.doc]
    /\ lastOp' = Op("createFilledPdf")
    /\ UNCHANGED <<fields, filterMode, pdfMode, formDoc, formType, mounted,
                   timer, inFlight, started, created, revoked, previewUrl,
                   downloaded, fillArgs>>
    /\ UNCHANGED <<formName, latexVars, appVars, serviceVars>>

NextFill == CallCreateFilledPdf

SpecFill == InitFill /\ [][NextFill]_vars

(* Review panel: the field list with the preview regeneration *)

PanelDocuments == {NamedDocument(TRUE, FALSE), FlatDocument(1), CorruptDocument}

PanelFields ==
    <<ExtractedField("firstName", S_John,
                     Validation("WARNING", "Name might be incomplete", S_Jane),
                     FALSE, Coordinates(0, 500, 500))>>

Init ==
    /\ fields = PanelFields
    /\ formType \in {"application/pdf", "image/png"}
    /\ formDoc \in IF formType = "application/pdf" THEN PanelDocuments
                   ELSE {CorruptDocument}
    /\ formName = N_form
    /\ pdfMode = InitialPdfMode(formDoc)
    /\ PanelMounted
    /\ ServiceUnreachable
    /\ AppInReview

Next ==
    \/ EditDisplayed
    \/ ToggleDisplayed
    \/ AcceptFixDisplayed
    \/ SwitchFilter
    \/ updatePreview
    \/ FillSettles
    \/ handleDownload
    \/ Unmount

Spec == Init /\ [][Next]_vars

(* Review panel of a form with a known template: the fill modes *)

InitLatex ==
    /\ fields = PanelFields
    /\ formType = "application/pdf"
    /\ formDoc \in PanelDocuments
    /\ formName = N_G2210
    /\ pdfMode = InitialPdfMode(formDoc)
    /\ PanelMounted
    /\ HealthCheckPending
    /\ AppInReview

NextLatex ==
    \/ EditDisplayed
    \/ checkLatex
    \/ switchMode
    \/ updatePreview
    \/ FillSettles
    \/ handleRegenerateLatex
    \/ LatexSettles
    \/ handleDownload

SpecLatex == InitLatex /\ [][NextLatex]_vars

(* Template-render service client: one call of one function *)

InitService ==
    /\ serviceCall \in
         [fn : {"isLatexServiceAvailable", "getAvailableTemplates",
                "getTemplateFieldMapping", "generateLatexPdf",
                "previewLatexSource"},
          response : {NetworkFailure, Timeout}
                     \cup {HttpResponse(code, body) :
                              code \in {200, 404, 500}, body \in Bodies}]
    /\ serviceResult = [state |-> "idle", threw |-> FALSE]
    /\ fields \in {<< >>, PanelFields}
    /\ formDoc = FlatDocument(1)
    /\ formType = "application/pdf"
    /\ formName = N_G2210
    /\ pdfMode = "latex"
    /\ filterMode = "ALL"
    /\ mounted = FALSE
    /\ timer = FALSE
    /\ inFlight = {}
    /\ started = 0
    /\ created = 0
    /\ revoked = {}
    /\ previewUrl = NoUrl
    /\ downloaded = NoDownload
    /\ fillArgs = FALSE
    /\ fillResult = [state |-> "idle", doc |-> CorruptDocument]
    /\ lastOp = Op("init")
    /\ latexAvailable = "null"
    /\ healthCheck = FALSE
    /\ latexPdfBase64 = NoPdf
    /\ isGenerating = FALSE
    /\ latexCalls = {}
    /\ latexStarted = 0
    /\ AppInReview

\* the function named in serviceCall is called and its promise settles
CallService ==
    /\ serviceResult.state = "idle"
    /\ LET r == serviceCall.response
           result ==
             CASE serviceCall.fn = "isLatexServiceAvailable" ->
                      isLatexServiceAvailable(r)
               [] serviceCall.fn = "getAvailableTemplates" ->
                      getAvailableTemplates(r)
               [] serviceCall.fn = "getTemplateFieldMapping" ->
                      getTemplateFieldMapping(r)
               [] serviceCall.fn = "generateLatexPdf" ->
                      generateLatexPdf(r, RequestFields(fields))
               [] OTHER -> previewLatexSource(r)
       IN  serviceResult' = [state |-> "settled", threw |-> result.threw,
                             value |-> result.value]
    /\ lastOp' = Op("CallService")
    /\ UNCHANGED <<fields, pdfMode, formDoc, formType, formName, mounted,
                   serviceCall, panelVars, fillVars, appVars>>

SpecService == InitService /\ [][CallService]_vars

(* App shell: file selection, extraction, review, reset *)

InitApp ==
    /\ status = "IDLE"
    /\ formType = "null"
    /\ formDoc = CorruptDocument
    /\ formName = EmptyStr
    /\ sourceFile = FALSE
    /\ pdfFields = {}
    /\ responseData = NoResponseData
    /\ error = "null"
    /\ analysis = NoAnalysis
    /\ inspections = {}
    /\ apiKey \in {"null", "key"}
    /\ fields = << >>
    /\ pdfMode = "overlay"
    /\ filterMode = "ALL"
    /\ mounted = FALSE
    /\ timer = FALSE
    /\ inFlight = {}
    /\ started = 0
    /\ created = 0
    /\ revoked = {}
    /\ previewUrl = NoUrl
    /\ downloaded = NoDownload
    /\ fillArgs = FALSE
    /\ fillResult = [state |-> "idle", doc |-> CorruptDocument]
    /\ lastOp = Op("init")
    /\ latexPdfBase64 = NoPdf
    /\ isGenerating = FALSE
    /\ latexCalls = {}
    /\ latexStarted = 0
    /\ ServiceUnreachable
    /\ ServiceIdle

\* the user selects or clears the form file
SelectFormFile == \E file \in FormFiles \cup {NoFile} : setFormFile(file)

\* a field inspection settles
InspectionSettles == \E found \in inspections : analyzePdfSettled(found)

\* the user selects or clears the source file
SelectSourceFile == \E selected \in BOOLEAN : setSourceFile(selected)

\* the user saves a key in the API key dialog
SaveApiKey == \E key \in {"", "key"} : handleSaveApiKey(key)

\* the model answers, or the request fails
ExtractionSettles == \E outcome \in GeminiOutcomes : handleAnalyzeSettled(outcome)

NextApp ==
    \/ SelectFormFile
    \/ InspectionSettles
    \/ SelectSourceFile
    \/ SaveApiKey
    \/ handleAnalyze
    \/ ExtractionSettles
    \/ reset

SpecApp == InitApp /\ [][NextApp]_vars

----------------------------------------------------------------------------
(* Properties of the reconciliation store *)

\* the original indices of the displayed fields, in display order
DisplayedIndices == [k \in DOMAIN displayedFields |-> displayedFields[k].originalIndex]

\* the validation statuses and verification flags of the field list
StatusList == [i \in DOMAIN fields |-> StatusOf(fields[i])]
VerifiedList == [i \in DOMAIN fields |-> fields[i].isVerified]

\* C1: after handleUpdate(i, v) the field at i has value v, is verified and
\* has validation status VALID, whatever its state was before.
C1_EditVerifiesAndValidates ==
    lastOp.op = "handleUpdate" =>
        /\ fields[lastOp.index].value = lastOp.arg
        /\ fields[lastOp.index].isVerified = TRUE
        /\ StatusOf(fields[lastOp.index]) = "VALID"

\* C1 witness: an unverified INVALID field has just been edited.
C1_Witness ==
    /\ lastOp.op = "handleUpdate"
    /\ lastOp.prev.validation.status = "INVALID"
    /\ ~lastOp.prev.isVerified
    /\ lastOp.arg = S_Smith
    /\ fields[lastOp.index].value = S_Smith

\* e is displayed before d under the keys (unresolved first, unverified
\* first, original index)
BeforeByUnresolved(e, d) ==
    LET eU == IF StatusOf(e.f) # "VALID" /\ ~e.f.isVerified THEN 0 ELSE 1
        dU == IF StatusOf(d.f) # "VALID" /\ ~d.f.isVerified THEN 0 ELSE 1
        eV == IF e.f.isVerified THEN 1 ELSE 0
        dV == IF d.f.isVerified THEN 1 ELSE 0
    IN  \/ eU < dU
        \/ eU = dU /\ eV < dV
        \/ eU = dU /\ eV = dV /\ e.originalIndex < d.originalIndex

\* e is displayed before d under the keys (status not VALID first,
\* unverified first, original index)
BeforeByStatus(e, d) ==
    LET eA == IF StatusOf(e.f) # "VALID" THEN 0 ELSE 1
        dA == IF StatusOf(d.f) # "VALID" THEN 0 ELSE 1
        eV == IF e.f.isVerified THEN 1 ELSE 0
        dV == IF d.f.isVerified THEN 1 ELSE 0
    IN  \/ eA < dA
        \/ eA = dA /\ eV < dV
        \/ eA = dA /\ eV = dV /\ e.originalIndex < d.originalIndex

\* the list [A: VALID/unverified, B: INVALID/unverified, C: WARNING/verified]
IsSortExample ==
    /\ StatusList = <<"VALID", "INVALID", "WARNING">>
    /\ VerifiedList = <<FALSE, FALSE, TRUE>>

\* C2 as stated: the display order puts the fields that are both non-VALID
\* and unverified first, then unverified before verified, then by original
\* index; the example list is displayed as [B, A, C].
C2_OrderUnresolvedFirst ==
    /\ \A p, q \in DOMAIN displayedFields :
          p < q => BeforeByUnresolved(displayedFields[p], displayedFields[q])
    /\ (IsSortExample /\ filterMode = "ALL") => DisplayedIndices = <<2, 1, 3>>

\* C2 amended: the display order puts every non-VALID field first, verified
\* or not, then unverified before verified, then by original index; under
\* ALL it is a permutation of the list; the example is displayed [B, C, A].
C2_OrderNonValidFirst ==
    /\ \A p, q \in DOMAIN displayedFields :
          p < q => BeforeByStatus(displayedFields[p], displayedFields[q])
    /\ filterMode = "ALL" =>
          {DisplayedIndices[k] : k \in DOMAIN DisplayedIndices} = DOMAIN fields
    /\ (IsSortExample /\ filterMode = "ALL") => DisplayedIndices = <<2, 3, 1>>

\* C2 witness: the example list is on display, unfiltered, as [B, C, A].
C2_Witness ==
    /\ IsSortExample
    /\ filterMode = "ALL"
    /\ DisplayedIndices = <<2, 3, 1>>

\* C3: under ATTENTION exactly the fields that are non-VALID and unverified
\* are displayed, each once; under ALL every field is displayed once; the
\* example [A: VALID/verified, B: WARNING/unverified, C: INVALID/verified]
\* displays exactly B; verifying a field leaves its validation unchanged.
C3_AttentionFilter ==
    /\ Len(displayedFields)
         = Cardinality({DisplayedIndices[k] : k \in DOMAIN DisplayedIndices})
    /\ filterMode = "ATTENTION" =>
          {DisplayedIndices[k] : k \in DOMAIN DisplayedIndices}
            = {i \in DOMAIN fields :
                  StatusOf(fields[i]) # "VALID" /\ ~fields[i].isVerified}
    /\ filterMode = "ALL" =>
          {DisplayedIndices[k] : k \in DOMAIN DisplayedIndices} = DOMAIN fields
    /\ (/\ filterMode = "ATTENTION"
        /\ StatusList = <<"VALID", "WARNING", "INVALID">>
        /\ VerifiedList = <<TRUE, FALSE, TRUE>>) => DisplayedIndices = <<2>>
    /\ lastOp.op = "toggleVerify" =>
          fields[lastOp.index].validation = lastOp.prev.validation

\* C3 witness: under ATTENTION a field with status INVALID has just been
\* verified and is no longer displayed, while an unverified WARNING field is.
C3_Witness ==
    /\ filterMode = "ATTENTION"
    /\ lastOp.op = "toggleVerify"
    /\ fields[lastOp.index].isVerified
    /\ StatusOf(fields[lastOp.index]) = "INVALID"
    /\ \A k \in DOMAIN DisplayedIndices : DisplayedIndices[k] # lastOp.index
    /\ \E k \in DOMAIN displayedFields :
          StatusOf(displayedFields[k].f) = "WARNING"

----------------------------------------------------------------------------
(* Properties of the fill engine *)

\* a NamedFields run of createFilledPdf has returned
NamedRunDone == fillResult.state = "resolved" /\ fillArgs

\* a CoordinateOverlay run of createFilledPdf has returned
OverlayRunDone == fillResult.state = "resolved" /\ ~fillArgs

\* the keys of the input fields (a field without key maps nothing)
InputKeys == {fields[i].key : i \in DOMAIN fields} \ {""}

\* the value of the last input field that carries the key
LastValue(key) ==
    fields[CHOOSE i \in DOMAIN fields :
              /\ fields[i].key = key
              /\ \A j \in DOMAIN fields : fields[j].key = key => j <= i].value

\* v and w are the same text up to the case of their letters
SameIgnoringCase(v, w) ==
    /\ Len(v) = Len(w)
    /\ \A k \in DOMAIN v :
          \/ v[k] = w[k]
          \/ \E j \in DOMAIN UpperCase :
                {v[k], w[k]} = {UpperCase[j], LowerCase[j]}

\* v is "true" or "yes" in any mix of upper and lower case
TrueOrYes(v) == SameIgnoringCase(v, S_true) \/ SameIgnoringCase(v, S_yes)

TypeOf(name) == formDoc.form[name].type

\* what getText() gives after a text field was set to v
TextAfterSet(v) ==
    IF v = EmptyStr THEN [defined |-> FALSE, text |-> EmptyStr]
    ELSE [defined |-> TRUE, text |-> v]

\* C5: in NamedFields mode every mapped key that names a check box leaves it
\* checked if and only if the mapped value equals "true" or "yes" up to
\* case, and unchecked otherwise, whatever it was before.
C5_CheckboxCheckedIffTrueOrYes ==
    NamedRunDone =>
        \A key \in InputKeys :
            (key \in DOMAIN formDoc.form /\ TypeOf(key) = "PDFCheckBox") =>
                (fillResult.doc.form[key].checked <=> TrueOrYes(LastValue(key)))

\* C5 witness: a check box that was checked before the fill is unchecked by
\* the value "X".
C5_Witness ==
    /\ NamedRunDone
    /\ formDoc.form["agree"].checked
    /\ "agree" \in InputKeys
    /\ LastValue("agree") = S_X
    /\ ~fillResult.doc.form["agree"].checked

\* C6 as stated: in NamedFields mode the text of every named text field
\* equals the value of every input field carrying its name, every document
\* field no input names keeps its content, and nothing is drawn.
C6_EveryKeyedValueWritten ==
    NamedRunDone =>
        /\ \A i \in DOMAIN fields :
              (fields[i].key \in DOMAIN formDoc.form
               /\ TypeOf(fields[i].key) = "PDFTextField") =>
                  getText(fillResult.doc, fields[i].key)
                     = [defined |-> TRUE, text |-> fields[i].value]
        /\ \A name \in DOMAIN formDoc.form :
              name \notin InputKeys =>
                  fillResult.doc.form[name] = formDoc.form[name]
        /\ fillResult.doc.drawn = formDoc.drawn

\* C6 amended: the text of a named text field is the value of the LAST input
\* field carrying its name when the field can be written (no text when that
\* value is empty), and its old content when it cannot; every document
\* field no input names keeps its content; nothing is drawn.
C6_LastKeyedValueWritten ==
    NamedRunDone =>
        /\ \A key \in InputKeys :
              (key \in DOMAIN formDoc.form /\ TypeOf(key) = "PDFTextField") =>
                  IF formDoc.form[key].writable
                  THEN getText(fillResult.doc, key) = TextAfterSet(LastValue(key))
                  ELSE fillResult.doc.form[key] = formDoc.form[key]
        /\ \A name \in DOMAIN formDoc.form :
              name \notin InputKeys =>
                  fillResult.doc.form[name] = formDoc.form[name]
        /\ fillResult.doc.drawn = formDoc.drawn
        /\ fillResult.doc.pages = formDoc.pages

\* C6 witness: two inputs carry the key firstName; the text is the second
\* value, lastName is named by no input and keeps "Doe", and an input that
\* has coordinates is not drawn.
C6_Witness ==
    /\ NamedRunDone
    /\ Len(fields) = 2
    /\ fields[1].key = "firstName" /\ fields[1].value = S_no
    /\ fields[2].key = "firstName" /\ fields[2].value = S_X
    /\ fields[2].coordinates.present
    /\ getText(fillResult.doc, "firstName") = [defined |-> TRUE, text |-> S_X]
    /\ getText(fillResult.doc, "lastName") = [defined |-> TRUE, text |-> S_Doe]
    /\ fillResult.doc.drawn = {}

\* field i of the input is on the output page at its transformed position
IsDrawn(i) ==
    \E d \in fillResult.doc.drawn :
        /\ fields[i].coordinates.present
        /\ d.text = fields[i].value
        /\ d.pageIndex = fields[i].coordinates.pageIndex
        /\ d.x = fields[i].coordinates.x * PageWidth
        /\ d.y = (1000 - fields[i].coordinates.y) * PageHeight - 4000

\* field i has a value, coordinates and a page of the document
Drawable(i) ==
    /\ fields[i].value # EmptyStr
    /\ fields[i].coordinates.present
    /\ 0 <= fields[i].coordinates.pageIndex
    /\ fields[i].coordinates.pageIndex < formDoc.pages

\* C7 as stated: in CoordinateOverlay mode a field is drawn if and only if
\* it has a non-empty value, coordinates and a pageIndex within the
\* document; the call returns the document whatever is skipped.
C7_DrawnIffDrawable ==
    /\ (~fillArgs /\ formDoc.loadable /\ fillResult.state # "idle")
          => fillResult.state = "resolved"
    /\ OverlayRunDone => \A i \in DOMAIN fields : IsDrawn(i) <=> Drawable(i)

\* C7 amended: a field is drawn only if it has a non-empty value,
\* coordinates and a pageIndex within the document, and every such field
\* whose text the font can encode is drawn; a field whose drawText call
\* throws is skipped like the others; nothing else is drawn and the call
\* returns the document whatever is skipped.
C7_DrawnIffDrawableAndEncodable ==
    /\ (~fillArgs /\ formDoc.loadable /\ fillResult.state # "idle")
          => fillResult.state = "resolved"
    /\ OverlayRunDone =>
          /\ \A i \in DOMAIN fields :
                IsDrawn(i) <=>
                   (Drawable(i) /\ \A k \in DOMAIN fields[i].value :
                                       fields[i].value[k] # "U+2603")
          /\ \A d \in fillResult.doc.drawn :
                \E i \in DOMAIN fields : d.text = fields[i].value
          /\ fillResult.doc.form = formDoc.form

\* C7 witness: on a one-page document a field on page 99 is skipped and
\* the other field is drawn.
C7_Witness ==
    /\ OverlayRunDone
    /\ formDoc.pages = 1
    /\ Len(fields) = 2
    /\ fields[1].coordinates.present /\ fields[1].coordinates.pageIndex = 99
    /\ fields[1].value = S_John
    /\ ~IsDrawn(1)
    /\ IsDrawn(2)

\* the write of a mapped key fails: no such field, or it cannot be written
BadKey(key) ==
    \/ key \notin DOMAIN formDoc.form
    \/ ~formDoc.form[key].writable

\* C8: in NamedFields mode the call returns the document for every set of
\* mapped keys, and when some keys name no field or cannot be written,
\* every other mapped key that names a text field or check box is written.
C8_BadFieldDoesNotBlock ==
    /\ (fillArgs /\ formDoc.loadable /\ fillResult.state # "idle")
          => fillResult.state = "resolved"
    /\ (NamedRunDone /\ \E bad \in InputKeys : BadKey(bad)) =>
          \A key \in InputKeys :
              ~BadKey(key) =>
                  IF TypeOf(key) = "PDFTextField"
                  THEN getText(fillResult.doc, key) = TextAfterSet(LastValue(key))
                  ELSE fillResult.doc.form[key].checked = TrueOrYes(LastValue(key))

\* C8 witness: the first mapped key names no field of the document, the
\* second names the check box, which is checked by the call.
C8_Witness ==
    /\ NamedRunDone
    /\ Len(fields) = 2
    /\ fields[1].key = "nonexistent"
    /\ fields[2].key = "agree" /\ fields[2].value = S_true
    /\ ~formDoc.form["agree"].checked
    /\ fillResult.doc.form["agree"].checked

----------------------------------------------------------------------------
(* Properties of the preview regeneration *)

\* the fill of the field list and fill mode as they stand
CurrentFill == createFilledPdf(formDoc, fields, pdfMode = "fillable").doc

\* C4: the document handed over by a click on Download, for a PDF form in
\* fillable or overlay mode, is the fill of the field list as it stands at
\* the click.
C4_DownloadIsFillOfCurrentFields ==
    (/\ lastOp.op = "handleDownload"
     /\ formType = "application/pdf"
     /\ formDoc.loadable
     /\ pdfMode \in {"fillable", "overlay"}
     /\ downloaded.kind = "preview") => downloaded.doc = CurrentFill

\* C9: at most one created preview URL is unreleased at any time, and after
\* the panel is torn down and the last fill has settled none is.
C9_AtMostOneUnreleasedUrl ==
    /\ Cardinality(Unreleased) <= 1
    /\ (~mounted /\ inFlight = {}) => Unreleased = {}

\* C10: once the debounce timer has fired after the last mutation and every
\* started fill has completed, the installed preview is the fill of the
\* field list and mode as they stand.
C10_SettledPreviewIsCurrent ==
    (/\ mounted
     /\ formType = "application/pdf"
     /\ formDoc.loadable
     /\ ~timer
     /\ inFlight = {}) =>
        /\ previewUrl.kind = "blob"
        /\ previewUrl.doc = CurrentFill

----------------------------------------------------------------------------
(* Properties of the preview regeneration with the fill modes *)

\* a createFilledPdf call of updatePreview rejects and its catch runs
FillFails == \E call \in inFlight : call.result.threw /\ updatePreviewSettled(call)

\* C11: when a preview fill fails, the installed preview, the field list and
\* the App's status and error stay as they were, and a later edit still sets
\* the debounce timer of a new preview fill.
C11_FailedFillChangesNothing ==
    /\ [][FillFails => /\ previewUrl' = previewUrl
                       /\ fields' = fields
                       /\ pdfMode' = pdfMode
                       /\ status' = status
                       /\ error' = error
                       /\ timer' = timer]_vars
    /\ [](status = "REVIEW" /\ error = "null")
    /\ []((mounted /\ lastOp.op = "handleUpdate") => timer)

\* a fill has failed while a preview made earlier is installed
C11_Witness ==
    /\ lastOp.op = "updatePreviewSettled"
    /\ ~formDoc.loadable
    /\ previewUrl.kind = "blob"
    /\ mounted

----------------------------------------------------------------------------
(* Properties of the App shell and of the extraction *)

\* the pending processDocuments call, were the model to answer `outcome`
PendingCall(outcome) ==
    processDocuments(analysis.fileName, analysis.pdfFields,
                     analysis.key, outcome)

\* the pending processDocuments call rejects and the catch of handleAnalyze runs
ExtractionFails(outcome) ==
    PendingCall(outcome).threw /\ handleAnalyzeSettled(outcome)

\* e.message, or the generic text when it is empty
ShownMessage(outcome) ==
    IF PendingCall(outcome).value = ""
    THEN "Something went wrong during analysis."
    ELSE PendingCall(outcome).value

\* C12: a failing processDocuments takes the App from PROCESSING to ERROR
\* with the error's message (the generic text for an empty message), no
\* field list and no review panel; in ERROR Analyze can be started again, and
\* PROCESSING and REVIEW carry no error.
C12_FailedExtractionIsRetryable ==
    /\ [][\A outcome \in GeminiOutcomes :
            ExtractionFails(outcome) =>
                /\ status = "PROCESSING"
                /\ status' = "ERROR"
                /\ error' = ShownMessage(outcome)
                /\ responseData' = NoResponseData
                /\ ~mounted']_vars
    /\ [](status = "ERROR" =>
            /\ error # "null"
            /\ responseData = NoResponseData
            /\ ~mounted
            /\ (formFile /\ sourceFile) => ENABLED handleAnalyze)
    /\ [](status \in {"PROCESSING", "REVIEW"} => error = "null")

\* an extraction failed with an empty message and the App shows the generic text
C12_Witness ==
    /\ status = "ERROR"
    /\ lastOp.op = "handleAnalyzeSettled"
    /\ error = "Something went wrong during analysis."
    /\ formFile /\ sourceFile

\* C13: a field list is installed only from a response body that is
\* non-empty and parses as {summary, fields: [...]}; every other body makes
\* the extraction fail, so the App never reaches REVIEW with it.
C13_OnlyWellFormedBodyInstalled ==
    /\ status = "REVIEW" => (~responseData.isNull /\ responseData.hasFields)
    /\ responseData # NoResponseData => responseData.hasFields

\* C14: every createFilledPdf call of the review panel addresses by key
\* (isFillable = true) exactly when the document exposes named fields.
C14_ModeFollowsDocument ==
    \A call \in inFlight : call.isFillable = (getPdfFields(formDoc) # {})

\* C15: the extraction request of a form with named fields is in FILLABLE
\* PDF mode and lists exactly the inspector's {name, type} pairs, whatever
\* the file name; the template labels or the visual-coordinate instructions
\* are sent only for a form without named fields.
C15_NamedFieldsDecidePrompt ==
    analysis.pending =>
        IF analysis.pdfFields # {}
        THEN /\ analysis.prompt.mode = "FILLABLE PDF"
             /\ analysis.prompt.fieldList = analysis.pdfFields
        ELSE analysis.prompt.mode # "FILLABLE PDF"

----------------------------------------------------------------------------
(* Properties of the three handlers of the reconciliation store *)

\* the field an operation addressed, as it is now
Addressed == fields[lastOp.index]

\* C16: after an edit the field's validation is exactly {status: VALID,
\* message: 'Manually verified'}, without suggestion, and applySuggestion on
\* an edited field changes nothing.
C16_EditDiscardsSuggestion ==
    /\ lastOp.op = "handleUpdate" =>
          Addressed.validation = Validation("VALID", "Manually verified", EmptyStr)
    /\ (/\ lastOp.op = "applySuggestion"
        /\ lastOp.prev.validation.message = "Manually verified") =>
          Addressed = lastOp.prev

\* C17: applySuggestion(i) changes nothing when field i has no suggestion,
\* and otherwise gives the list edit(i, suggestion) gives: the value is the
\* suggestion, the field is verified and VALID.
C17_ApplySuggestionIsEdit ==
    [][\A i \in DOMAIN fields :
          applySuggestion(i) =>
              IF HasSuggestion(fields[i])
              THEN /\ fields' = handleUpdateList(fields, i,
                                                 fields[i].validation.suggestion)
                   /\ fields'[i].value = fields[i].validation.suggestion
                   /\ fields'[i].isVerified
                   /\ StatusOf(fields'[i]) = "VALID"
              ELSE fields' = fields]_vars

\* a suggestion was applied to an unverified field that had one
C17_Witness ==
    /\ lastOp.op = "applySuggestion"
    /\ HasSuggestion(lastOp.prev)
    /\ ~lastOp.prev.isVerified
    /\ Addressed.value = S_DoeJr
    /\ Addressed.isVerified

\* the number of elements of fs with isVerified = true
VerifiedIn(fs) == Cardinality({i \in DOMAIN fs : fs[i].isVerified})

\* C18: toggleVerify(i) flips isVerified of field i and changes nothing else
\* in the list, so the verified count moves by exactly one and a second
\* toggle restores the list; every field, verified or not and whatever its
\* status, appears with its value in the unfiltered display.
C18_ToggleFlipsOnlyVerified ==
    /\ [][\A i \in DOMAIN fields :
            toggleVerify(i) =>
                /\ fields' = [fields EXCEPT ![i].isVerified = ~fields[i].isVerified]
                /\ VerifiedIn(fields') - VerifiedIn(fields) \in {-1, 1}
                /\ toggleVerifyList(fields', i) = fields]_vars
    /\ [](\A i \in DOMAIN fields :
            \E k \in DOMAIN Displayed(fields, "ALL") :
                /\ Displayed(fields, "ALL")[k].originalIndex = i
                /\ Displayed(fields, "ALL")[k].f.value = fields[i].value)

\* an INVALID field was verified by a toggle and keeps its value
C18_Witness ==
    /\ lastOp.op = "toggleVerify"
    /\ StatusOf(lastOp.prev) = "INVALID"
    /\ ~lastOp.prev.isVerified
    /\ Addressed.isVerified
    /\ StatusOf(Addressed) = "INVALID"
    /\ Addressed.value = lastOp.prev.value

----------------------------------------------------------------------------
(* Properties of the coordinate transform *)

\* page sizes in points: Letter and A4
PageSizes == {<<612, 792>>, <<595, 842>>}

\* field i is drawn by the overlay loop: it is not skipped and its text can
\* be encoded
DrawnByOverlay(i) ==
    Drawable(i) /\ \A k \in DOMAIN fields[i].value : fields[i].value[k] # "U+2603"

\* C19: in thousandths of a point, the transform gives px = x * width and
\* py = 1000 * height - y * height, so (0,0) is the top-left corner (0, height)
\* and (1000,1000) the bottom-right corner (width, 0); the nudge of 4 points
\* is not in the transform; the fill engine draws each value once, on the
\* page of its pageIndex, at (px, py - 4) with size 10.
C19_TransformAndNudge ==
    /\ \A size \in PageSizes : \A x \in {0, 1, 500, 999, 1000} :
          /\ pdfX(x, size[1]) = x * size[1]
          /\ pdfY(x, size[2]) = 1000 * size[2] - x * size[2]
          /\ pdfX(x, size[1]) \in 0..(1000 * size[1])
          /\ pdfY(x, size[2]) \in 0..(1000 * size[2])
          /\ adjustedY(x, size[2]) = pdfY(x, size[2]) - 4000
    /\ \A size \in PageSizes :
          /\ <<pdfX(0, size[1]), pdfY(0, size[2])>> = <<0, 1000 * size[2]>>
          /\ <<pdfX(1000, size[1]), pdfY(1000, size[2])>> = <<1000 * size[1], 0>>
    /\ OverlayRunDone =>
          /\ \A i \in DOMAIN fields :
                DrawnByOverlay(i) =>
                    [pageIndex |-> fields[i].coordinates.pageIndex,
                     x |-> fields[i].coordinates.x * PageWidth,
                     y |-> 1000 * PageHeight
                           - fields[i].coordinates.y * PageHeight - 4000,
                     size |-> 10,
                     text |-> fields[i].value] \in fillResult.doc.drawn
          /\ \A d \in fillResult.doc.drawn :
                \E i \in DOMAIN fields :
                    /\ DrawnByOverlay(i)
                    /\ d.pageIndex = fields[i].coordinates.pageIndex
                    /\ d.text = fields[i].value

\* the two corners were drawn: (0,0) on the first page at (0, height - 4),
\* (1000,1000) on the second page at (width, -4)
C19_Witness ==
    /\ OverlayRunDone
    /\ Len(fields) = 2
    /\ fields[1].coordinates = Coordinates(0, 0, 0)
    /\ fields[2].coordinates = Coordinates(1, 1000, 1000)
    /\ [pageIndex |-> 0, x |-> 0, y |-> 788000, size |-> 10, text |-> S_John]
          \in fillResult.doc.drawn
    /\ [pageIndex |-> 1, x |-> 612000, y |-> -4000, size |-> 10, text |-> S_X]
          \in fillResult.doc.drawn

----------------------------------------------------------------------------
(* Properties of the template-render service client *)

\* the call of `fn` has settled
Settled(fn) == serviceResult.state = "settled" /\ serviceCall.fn = fn

\* fetch rejected, or the response is not 2xx
NoGoodResponse ==
    \/ serviceCall.response.kind \in {"network", "timeout"}
    \/ ~ok(serviceCall.response)

\* the response is 2xx and its body cannot be read as JSON
UnreadableBody ==
    /\ serviceCall.response.kind = "http"
    /\ ok(serviceCall.response)
    /\ serviceCall.response.body = "unreadable"

\* the four functions that read the body degrade to their failure value
BodyReadersDegrade ==
    (NoGoodResponse \/ UnreadableBody) =>
        /\ Settled("getAvailableTemplates") => serviceResult.value = << >>
        /\ Settled("getTemplateFieldMapping") => serviceResult.value = "null"
        /\ Settled("generateLatexPdf") =>
              /\ ~serviceResult.value.success
              /\ ~serviceResult.value.pdf
              /\ serviceResult.value.error # "undefined"
        /\ Settled("previewLatexSource") =>
              /\ ~serviceResult.value.latex
              /\ serviceResult.value.error # "undefined"

\* C20 as stated: no call lets an exception out, and on a non-2xx response,
\* a network failure, a timeout or an unreadable body every function returns
\* its failure value, isLatexServiceAvailable returning false.
C20_EveryFailureDegrades ==
    /\ serviceResult.state = "settled" => ~serviceResult.threw
    /\ BodyReadersDegrade
    /\ (Settled("isLatexServiceAvailable") /\ (NoGoodResponse \/ UnreadableBody))
          => serviceResult.value = FALSE

\* C20 amended: no call lets an exception out; the four functions that read
\* the body return their failure value on a non-2xx response, a network
\* failure, a timeout or an unreadable body; isLatexServiceAvailable, which
\* never reads the body, returns response.ok: false on a non-2xx response, a
\* network failure or a timeout, true on every 2xx response.
C20_FailureDegradesHealthByStatus ==
    /\ serviceResult.state = "settled" => ~serviceResult.threw
    /\ BodyReadersDegrade
    /\ Settled("isLatexServiceAvailable") =>
          serviceResult.value = ~NoGoodResponse

\* the health check answered true to a 2xx response with an unreadable body
C20_Witness ==
    /\ Settled("isLatexServiceAvailable")
    /\ UnreadableBody
    /\ serviceResult.value = TRUE

----------------------------------------------------------------------------
(* Properties of the canonical list under the handlers and the views *)

\* every displayed entry carries the field found at its originalIndex, and
\* no index is displayed twice
ViewAddresses(fs, mode) ==
    LET view == Displayed(fs, mode)
    IN  /\ \A k \in DOMAIN view :
              /\ view[k].originalIndex \in DOMAIN fs
              /\ view[k].f = fs[view[k].originalIndex]
        /\ \A k, l \in DOMAIN view :
              view[k].originalIndex = view[l].originalIndex => k = l

\* C22: every step keeps the length of the canonical list; an edit, a toggle
\* or an accepted suggestion made through the displayed view changes at most
\* the element at the index it was called with, which is the index of the
\* entry the user acted on, and every other element stays identical;
\* switching the filter leaves the list unchanged; before and after the step
\* every displayed entry addresses the field it shows.
C22_ListKeepsLengthAndOrder ==
    [][ /\ Len(fields') = Len(fields)
        /\ ViewAddresses(fields, filterMode)
        /\ ViewAddresses(fields', filterMode')
        /\ lastOp'.op \in {"handleUpdate", "toggleVerify", "applySuggestion"} =>
              /\ \E k \in DOMAIN displayedFields :
                    /\ displayedFields[k].originalIndex = lastOp'.index
                    /\ displayedFields[k].f = lastOp'.prev
                    /\ lastOp'.op = "handleUpdate" =>
                          fields'[lastOp'.index] =
                              handleUpdateList(<<displayedFields[k].f>>, 1,
                                               lastOp'.arg)[1]
              /\ \A j \in DOMAIN fields :
                    j # lastOp'.index => fields'[j] = fields[j]
        /\ lastOp'.op = "setFilterMode" => fields' = fields
      ]_vars

\* the second field of three, shown first by the sort, was edited through the
\* view while the first kept its place in the list
C22_Witness ==
    /\ Len(fields) = 3
    /\ lastOp.op = "handleUpdate"
    /\ lastOp.index = 2
    /\ lastOp.prev = SortExample[2]
    /\ fields[1] = SortExample[1]
    /\ fields[3] = SortExample[3]
    /\ fields[2].value = S_Smith

----------------------------------------------------------------------------
(* Properties of the preview scheduling *)

\* C23: at most one createFilledPdf call of the review panel is in flight
\* at any time.
C23_AtMostOneFillInFlight == Cardinality(inFlight) <= 1

\* the step changed the field list or the fill mode
Mutation == fields' # fields \/ pdfMode' # pdfMode

\* the step called a handler that sets a new field list (also one equal to
\* the old list)
ListSet ==
    /\ lastOp'.op \in {"handleUpdate", "toggleVerify", "applySuggestion"}
    /\ lastOp'.op = "applySuggestion" => HasSuggestion(lastOp'.prev)

\* the step is the timer firing and starting a fill, which reads the field
\* list and the mode as they are at that moment
FillStartsFromTimer ==
    /\ timer /\ ~timer'
    /\ started' = started + 1
    /\ ~Mutation
    /\ inFlight' = inFlight \cup
         {[id |-> started',
           isFillable |-> (pdfMode = "fillable"),
           result |-> createFilledPdf(formDoc, fields, pdfMode = "fillable")]}

\* C24: every change of the field list or fill mode cancels the pending
\* timer, leaves a fresh one pending and starts no fill itself; a fill
\* starts only by the timer firing with no change since it was set, each
\* firing consumes the timer and starts one fill, which reads the field list
\* and the mode as they are after the last change; once the timer has fired
\* no further fill can start until the preview effect runs again, which only
\* a change of the list, of the mode or of latexPdfBase64 causes.
C24_OneFillPerEffectRun ==
    [][ /\ (Mutation \/ ListSet) => (timer' /\ started' = started)
        /\ started' # started => FillStartsFromTimer
        /\ (~timer /\ timer') =>
              (Mutation \/ ListSet \/ latexPdfBase64' # latexPdfBase64)
      ]_vars

\* a fill of the edited list is in flight, started by the timer that the
\* edit armed
C24_Witness ==
    /\ started = 1
    /\ ~timer
    /\ fields[1].value = S_Smith
    /\ \E c \in inFlight :
          c.result = createFilledPdf(formDoc, fields, pdfMode = "fillable")
    /\ formDoc = FlatDocument(1)

----------------------------------------------------------------------------
(* Properties of duplicate keys in NamedFields mode *)

\* the keys carried by more than one input field
DuplicateKeys ==
    {key \in InputKeys :
        \E i, j \in DOMAIN fields :
            i # j /\ fields[i].key = key /\ fields[j].key = key}

\* the fields fs[1..n] without those whose key a later field of fs carries
RECURSIVE LastOccurrences(_, _)
LastOccurrences(fs, n) ==
    IF n = 0 THEN << >>
    ELSE LastOccurrences(fs, n - 1)
         \o (IF fs[n].key # "" /\ \E j \in (n + 1)..Len(fs) : fs[j].key = fs[n].key
             THEN << >> ELSE <<fs[n]>>)

\* C25: a NamedFields fill of a list with duplicate keys is not rejected for
\* them (it resolves whenever the document loads); each named field that
\* several inputs address holds the value of the last of them (a text field
\* that can be written its text, a check box its state); and the output is
\* the one the fill gives without the earlier duplicates.
C25_LastDuplicateWins ==
    (fillArgs /\ fillResult.state # "idle" /\ DuplicateKeys # {}) =>
        /\ fillResult.state = "resolved" <=> formDoc.loadable
        /\ fillResult.state = "resolved" =>
              /\ \A key \in DuplicateKeys \cap DOMAIN formDoc.form :
                    /\ (TypeOf(key) = "PDFTextField" /\ formDoc.form[key].writable)
                          => getText(fillResult.doc, key)
                                = TextAfterSet(LastValue(key))
                    /\ TypeOf(key) = "PDFCheckBox"
                          => (fillResult.doc.form[key].checked
                                <=> TrueOrYes(LastValue(key)))
              /\ fillResult.doc =
                    createFilledPdf(formDoc,
                                    LastOccurrences(fields, Len(fields)),
                                    TRUE).doc

\* two inputs address the check box: "X" first, "YeS" last; the box, which
\* was not checked, is checked
C25_Witness ==
    /\ NamedRunDone
    /\ Len(fields) = 2
    /\ fields[1].key = "agree" /\ fields[1].value = S_X
    /\ fields[2].key = "agree" /\ fields[2].value = S_YeS
    /\ ~formDoc.form["agree"].checked
    /\ fillResult.doc.form["agree"].checked

----------------------------------------------------------------------------
(* Properties of the credential test *)

\* no credential is stored
NoCredential == apiKey \in {"null", ""}

\* C26: an extraction started while no credential is stored (the key absent
\* or empty) attempts no model call, and whatever the model would have
\* answered it settles with status ERROR and the configuration error as the
\* message, installing nothing.
C26_NoCredentialNoRequest ==
    [][ /\ (lastOp'.op = "handleAnalyze" /\ NoCredential) =>
              /\ analysis'.pending
              /\ ~analysis'.sent
        /\ (analysis.pending /\ analysis.key \in {"null", ""}) =>
              /\ ~analysis.sent
              /\ \A outcome \in GeminiOutcomes :
                    LET call == processDocuments(analysis.fileName,
                                                 analysis.pdfFields,
                                                 analysis.key, outcome)
                    IN  call.threw /\ ~call.sent
                        /\ call.value = "Kein API Key gesetzt. Bitte gib deinen Gemini API Key ein."
              /\ lastOp'.op = "handleAnalyzeSettled" =>
                    /\ status' = "ERROR"
                    /\ error' = "Kein API Key gesetzt. Bitte gib deinen Gemini API Key ein."
                    /\ responseData' = responseData
                    /\ ~mounted'
      ]_vars

\* an extraction started with the empty key stored has failed
C26_Witness ==
    /\ apiKey = ""
    /\ lastOp.op = "handleAnalyzeSettled"
    /\ status = "ERROR"
    /\ error = "Kein API Key gesetzt. Bitte gib deinen Gemini API Key ein."

----------------------------------------------------------------------------
(* Properties of a field without validation *)

\* the field with the validation {status: 'VALID'} in place of an absent one
AsValid(f) ==
    IF f.validation.present THEN f
    ELSE [f EXCEPT !.validation = Validation("VALID", "", EmptyStr)]

\* C27: a field whose validation is absent is treated as a VALID field by
\* every derived view: it is not in the needs-attention subset, it is not
\* shown under the ATTENTION filter, the displayed order is the one the list
\* has with {status: VALID} in its place, and its row is decorated as VALID.
C27_AbsentValidationIsValid ==
    \A i \in DOMAIN fields :
        ~fields[i].validation.present =>
            /\ i \notin fieldsRequiresAttention
            /\ \A e \in {Displayed(fields, "ATTENTION")[k] :
                            k \in DOMAIN Displayed(fields, "ATTENTION")} :
                  e.originalIndex # i
            /\ [k \in DOMAIN Displayed(fields, "ALL") |->
                    Displayed(fields, "ALL")[k].originalIndex]
               = [k \in DOMAIN Displayed(fields, "ALL") |->
                    Displayed([j \in DOMAIN fields |-> AsValid(fields[j])],
                              "ALL")[k].originalIndex]
            /\ rowStatus(fields[i]) = "VALID"

----------------------------------------------------------------------------
(* Properties of the App shell *)

\* an extraction result is installed exactly in REVIEW and an error message
\* is set exactly in ERROR
ResultAndErrorFollowStatus(st, data, message) ==
    /\ data # NoResponseData <=> st = "REVIEW"
    /\ message # "null" <=> st = "ERROR"

\* C28: in every state an extraction result is installed iff status is
\* REVIEW and an error message is set iff status is ERROR; REVIEW is entered
\* only from PROCESSING, by an extraction that succeeded; PROCESSING is
\* entered only with a form file and a source file selected; and reset
\* leaves status IDLE with both files, the result, the field list, the error
\* and the named-field list cleared.
C28_StatusDeterminesContent ==
    [][ /\ ResultAndErrorFollowStatus(status, responseData, error)
        /\ ResultAndErrorFollowStatus(status', responseData', error')
        /\ (status' = "REVIEW" /\ status # "REVIEW") =>
              /\ status = "PROCESSING"
              /\ lastOp'.op = "handleAnalyzeSettled"
              /\ \E outcome \in GeminiOutcomes :
                    LET call == processDocuments(analysis.fileName,
                                                 analysis.pdfFields,
                                                 analysis.key, outcome)
                    IN  ~call.threw /\ responseData' = call.value
        /\ (status' = "PROCESSING" /\ status # "PROCESSING") =>
              formFile /\ sourceFile
        /\ lastOp'.op = "reset" =>
              /\ status' = "IDLE"
              /\ ~formFile'
              /\ ~sourceFile'
              /\ responseData' = NoResponseData
              /\ error' = "null"
              /\ pdfFields' = {}
              /\ ~mounted'
      ]_vars

\* C29: the named-field list handed to processDocuments is the inspection
\* result of the form file submitted with it, and the review panel's
\* isFillablePdf flag and initial fill mode are those of that form file.
C29_NamedFieldsOfSubmittedForm ==
    /\ analysis.pending => analysis.pdfFields = getPdfFields(formDoc)
    /\ mounted =>
          /\ isFillablePdf <=> getPdfFields(formDoc) # {}
          /\ pdfMode = InitialPdfMode(formDoc)

----------------------------------------------------------------------------
(* Properties of the verification footer *)

\* C30: the footer shows 'Ready to Download' if and only if every field of
\* the list is verified, and 'Review in progress' otherwise, for every list
\* size; the verified count is the number of verified fields and never
\* exceeds the total.
C30_ReadyIffAllVerified ==
    /\ footerText = "Ready to Download" <=>
          \A i \in DOMAIN fields : fields[i].isVerified
    /\ footerText \in {"Ready to Download", "Review in progress"}
    /\ verifiedCount = Len(SelectSeq(fields, LAMBDA f : f.isVerified))
    /\ verifiedCount <= totalCount

====
